---------------------------- MODULE ConfigCompose ----------------------------
(* How configuration files become one configuration (src/internal/config):   *)
(* every file is a tree of KDL nodes that the parser accepts or refuses on    *)
(* its own, the accepted ones are composed from the weakest to the strongest, *)
(* the result is validated, and for one invocation its templates are expanded *)
(* (src/internal/cli/materialize.go).                                         *)
(*                                                                            *)
(* A node is [kind, plain, args, props, kids]: plain when it carries neither  *)
(* an annotation nor, for a kind that takes none, a property.  A value is     *)
(* [as, text], as its annotation: "", "secret" or "template".                 *)
EXTENDS Naturals, SequencesExt, Filtering

CONSTANTS Documents,      \* the trees a file may hold
          MaxSources,     \* bound: files composed
          LowerCase,      \* header names that are not lower case, and their lower case
          Destinations,   \* texts that are valid endpoints or loopback redirects
          AbsolutePaths,  \* texts that are absolute paths
          ReservedHeaders,
          Contexts,       \* invocation contexts: the template texts each can expand
          Expansion,      \* Expansion[t]: what template text t expands to
          None

VARIABLES phase,   \* reading, composing, done, ready or failed
          read,    \* the accepted trees, weakest first (sources)
          next,    \* how many of them are composed
          config   \* the configuration composed so far

vars == <<phase, read, next, config>>

-----------------------------------------------------------------------------
(* Parsing: what each node may carry and contain. *)

Contents ==
    [wirecmd |-> {"root", "git-root", "secrets", "mcp", "lsp"},
     secrets |-> {"age"}, age |-> {"identity"},
     mcp |-> {"scope", "stdio", "http", "sse"},
     lsp |-> {"scope", "implementation-id", "selector", "initialization-options", "stdio"},
     http |-> {"query", "header", "oauth"}, sse |-> {"query", "header"},
     oauth |-> {"client-id", "client-secret", "redirect-uri"},
     stdio |-> {"arg", "env"}]

MayContain(kind) == IF kind \in DOMAIN Contents THEN Contents[kind] ELSE {}

Fields == {"query", "header", "env"}
Transports == {"stdio", "http", "sse"}

ArgumentCounts(kind) ==
    CASE kind \in {"wirecmd", "secrets", "age", "oauth", "selector"} \cup Fields -> {0}
      [] kind \in Transports -> {0, 1}
      [] OTHER -> {1}

Annotations(kind) ==
    CASE kind \in {"arg", "client-secret"} \cup Fields -> {"", "secret", "template"}
      [] kind \in Transports \cup {"client-id", "redirect-uri", "initialization-options"} -> {"", "template"}
      [] OTHER -> {""}

Properties(n) ==
    CASE n.kind \in Fields -> Len(n.props) = 1
      [] n.kind = "selector" ->
            /\ n.props # <<>>
            /\ \A p \in ToSet(n.props) : p.name \in {"language-id", "pattern"}
            /\ \E p \in ToSet(n.props) : p.name = "language-id"
            /\ \A i, j \in 1..Len(n.props) : n.props[i].name = n.props[j].name => i = j
      [] OTHER -> n.props = <<>>

httpFieldKey(kind, name) ==
    IF kind = "header" /\ name \in DOMAIN LowerCase THEN LowerCase[name] ELSE name

(* What no other child of the same kind may have: its name, or, for a kind *)
(* that may appear once, nothing at all.                                    *)
Key(n) ==
    CASE n.kind \in {"mcp", "lsp"} -> n.args[1].text
      [] n.kind \in Fields -> httpFieldKey(n.kind, n.props[1].name)
      [] OTHER -> ""

Repeatable == {"identity", "selector", "arg"}

AcceptsNode(n) ==
    /\ n.plain /\ Properties(n)
    /\ Len(n.args) \in ArgumentCounts(n.kind)
    /\ \A v \in ToSet(n.args) : v.as \in Annotations(n.kind)
    /\ \A p \in ToSet(n.props) : p.value.as \in Annotations(n.kind)
    /\ \A kid \in ToSet(n.kids) : kid.kind \in MayContain(n.kind)
    /\ \A i, j \in 1..Len(n.kids) :
          /\ n.kids[i].kind = n.kids[j].kind /\ i # j => n.kids[i].kind \in Repeatable \/ Key(n.kids[i]) # Key(n.kids[j])
          /\ n.kind = "mcp" /\ {n.kids[i].kind, n.kids[j].kind} \subseteq Transports => i = j

(* A tree's nodes: Contents nest no deeper than wirecmd, mcp, http, oauth, *)
(* client-id.                                                              *)
Below(nodes) == UNION {ToSet(n.kids) : n \in nodes}
Nodes(n) ==
    LET definitions == Below({n})  parts == Below(definitions)  fields == Below(parts)
    IN {n} \cup definitions \cup parts \cup fields \cup Below(fields)

Accepts(n) == \A m \in Nodes(n) : AcceptsNode(m)

(* What a parsed file is, accepted or not: a node's children are a list.   *)
ComposeAssumption ==
    \A d \in Documents : \A m \in Nodes(d) : m.kids \in Seq(ToSet(m.kids))

-----------------------------------------------------------------------------
(* Reading an accepted tree. *)

Kids(n, kind) == Kept(n.kids, {kid \in ToSet(n.kids) : kid.kind = kind})
Has(n, kind) == Kids(n, kind) # <<>>
The(n, kind) == Kids(n, kind)[1]
Argument(n) == IF n.args = <<>> THEN None ELSE n.args[1]
ValueOf(n, kind) == IF Has(n, kind) THEN Argument(The(n, kind)) ELSE None
ValuesOf(n, kind) == [i \in 1..Len(Kids(n, kind)) |-> Kids(n, kind)[i].args[1]]
Entries(n, kind) == [i \in 1..Len(Kids(n, kind)) |-> Kids(n, kind)[i].props[1]]
TransportOf(n) == Kept(n.kids, {kid \in ToSet(n.kids) : kid.kind \in Transports})

Pattern(selector) ==
    LET given == {p \in ToSet(selector.props) : p.name = "pattern"}
    IN IF given = {} THEN "**/*" ELSE (CHOOSE p \in given : TRUE).value.text

Selectors(n) ==
    [i \in 1..Len(Kids(n, "selector")) |->
        [language |-> (CHOOSE p \in ToSet(Kids(n, "selector")[i].props) : p.name = "language-id").value.text,
         pattern |-> Pattern(Kids(n, "selector")[i])]]

-----------------------------------------------------------------------------
(* Composition. *)

Stronger(inherited, given) == IF given = None THEN inherited ELSE given
StrongerList(inherited, given) == IF given = <<>> THEN inherited ELSE given

(* A field in the place of the one of its name, or after those there are.  *)
PlaceField(fields, field, kind) ==
    LET same == {i \in 1..Len(fields) :
                    httpFieldKey(kind, fields[i].name) = httpFieldKey(kind, field.name)}
    IN IF same = {} THEN Append(fields, field)
       ELSE [fields EXCEPT ![CHOOSE i \in same : TRUE] = field]

composeHTTPFields(inherited, given, kind) ==
    LET upTo[i \in 0..Len(given)] ==
          IF i = 0 THEN inherited ELSE PlaceField(upTo[i - 1], given[i], kind)
    IN upTo[Len(given)]

(* A slot that no file has filled (a nil pointer, a zero Provenance).      *)
NoSlot == <<>>

EmptyStdio == [command |-> None, args |-> <<>>, env |-> <<>>]
EmptyOAuth == [clientId |-> None, clientSecret |-> None, redirectUri |-> None]
EmptyHTTP(kind) == [kind |-> kind, endpoint |-> None, query |-> <<>>, headers |-> <<>>, oauth |-> NoSlot]

composeStdio(slot, n) ==
    LET was == IF slot = NoSlot THEN EmptyStdio ELSE slot
    IN [command |-> Stronger(was.command, Argument(n)),
        args |-> StrongerList(was.args, ValuesOf(n, "arg")),
        env |-> composeHTTPFields(was.env, Entries(n, "env"), "env")]

composeOAuth(slot, n) ==
    LET was == IF slot = NoSlot THEN EmptyOAuth ELSE slot
    IN [clientId |-> Stronger(was.clientId, ValueOf(n, "client-id")),
        clientSecret |-> Stronger(was.clientSecret, ValueOf(n, "client-secret")),
        redirectUri |-> Stronger(was.redirectUri, ValueOf(n, "redirect-uri"))]

composeHTTP(was, n) ==
    [kind |-> n.kind,
     endpoint |-> Stronger(was.endpoint, Argument(n)),
     query |-> composeHTTPFields(was.query, Entries(n, "query"), "query"),
     headers |-> composeHTTPFields(was.headers, Entries(n, "header"), "header"),
     oauth |-> IF Has(n, "oauth") THEN composeOAuth(was.oauth, The(n, "oauth")) ELSE was.oauth]

InheritedAnyHTTP(server, kind) ==
    IF server.stdio # NoSlot \/ server.http = NoSlot THEN EmptyHTTP(kind) ELSE server.http

(* What a stronger HTTP or SSE node inherits: a transport of its own kind. *)
Inherited(server, kind) ==
    IF server.stdio # NoSlot \/ server.http = NoSlot \/ server.http.kind # kind
    THEN EmptyHTTP(kind) ELSE server.http

ComposeServer(server, n) ==
    LET scoped == [server EXCEPT !.scope = Stronger(@, ValueOf(n, "scope"))]
        given == TransportOf(n)
    IN CASE given = <<>> -> scoped
         [] given # <<>> /\ given[1].kind = "stdio" ->
              [scoped EXCEPT !.stdio = composeStdio(IF server.http # NoSlot THEN NoSlot ELSE @, given[1]),
                             !.http = NoSlot]
         [] OTHER ->
              [scoped EXCEPT !.stdio = NoSlot,
                             !.http = composeHTTP(Inherited(server, given[1].kind), given[1])]

ComposeLSP(lsp, n) ==
    [lsp EXCEPT !.scope = Stronger(@, ValueOf(n, "scope")),
                !.implementationId = Stronger(@, ValueOf(n, "implementation-id")),
                !.selectors = StrongerList(@, Selectors(n)),
                !.options = Stronger(@, ValueOf(n, "initialization-options")),
                !.stdio = IF Has(n, "stdio") THEN composeStdio(@, The(n, "stdio")) ELSE @]

NewServer(name) == [name |-> name, scope |-> None, stdio |-> NoSlot, http |-> NoSlot]
NewLSP(name) ==
    [name |-> name, scope |-> None, implementationId |-> None, selectors |-> <<>>,
     options |-> None, stdio |-> NoSlot]

(* The named definitions of a stronger file, each merged into the one of its *)
(* name, or introduced after those there are.                                *)
New(n) == IF n.kind = "mcp" THEN NewServer(Key(n)) ELSE NewLSP(Key(n))
ComposeOne(definition, n) ==
    IF n.kind = "mcp" THEN ComposeServer(definition, n) ELSE ComposeLSP(definition, n)

PlaceNamed(definitions, n) ==
    LET same == {i \in 1..Len(definitions) : definitions[i].name = Key(n)}
    IN IF same = {} THEN Append(definitions, ComposeOne(New(n), n))
       ELSE [definitions EXCEPT ![CHOOSE i \in same : TRUE] = ComposeOne(@, n)]

ComposeNamed(definitions, partials) ==
    LET upTo[i \in 0..Len(partials)] ==
          IF i = 0 THEN definitions ELSE PlaceNamed(upTo[i - 1], partials[i])
    IN upTo[Len(partials)]

Identities(n) ==
    IF Has(n, "secrets") /\ Has(The(n, "secrets"), "age")
    THEN ValuesOf(The(The(n, "secrets"), "age"), "identity") ELSE <<>>

EmptyConfig ==
    [root |-> None, gitRoot |-> None, identities |-> <<>>, servers |-> <<>>, lsps |-> <<>>]

Compose(below, n) ==
    [root |-> Stronger(below.root, ValueOf(n, "root")),
     gitRoot |-> Stronger(below.gitRoot, ValueOf(n, "git-root")),
     identities |-> StrongerList(below.identities, Identities(n)),
     servers |-> ComposeNamed(below.servers, Kids(n, "mcp")),
     lsps |-> ComposeNamed(below.lsps, Kids(n, "lsp"))]

-----------------------------------------------------------------------------
(* Validation of the effective configuration, and expansion of templates. *)

Empty(value) == value = None \/ value.text = ""
ValidDestination(value) == value.as = "template" \/ value.text \in Destinations
ValidScope(scope) == scope = None \/ scope.text \in {"workspace", "global"}
ValidStdio(stdio) == stdio # NoSlot /\ ~Empty(stdio.command)

ValidOAuth(http) ==
    http.oauth # NoSlot =>
        /\ http.kind = "http"
        /\ \A h \in ToSet(http.headers) : httpFieldKey("header", h.name) # "authorization"
        /\ ~Empty(http.oauth.clientId) /\ ~Empty(http.oauth.redirectUri)
        /\ ValidDestination(http.oauth.redirectUri)

ValidHTTP(http) ==
    /\ ~Empty(http.endpoint) /\ ValidDestination(http.endpoint)
    /\ \A h \in ToSet(http.headers) : httpFieldKey("header", h.name) \notin ReservedHeaders \cup {""}
    /\ ValidOAuth(http)

ValidServer(server) ==
    /\ ValidScope(server.scope)
    /\ IF server.http # NoSlot THEN ValidHTTP(server.http) ELSE ValidStdio(server.stdio)

ValidLSP(lsp) ==
    /\ ValidScope(lsp.scope)
    /\ lsp.implementationId # None => ~Empty(lsp.implementationId)
    /\ lsp.selectors # <<>>
    /\ \A s \in ToSet(lsp.selectors) : s.language # "" /\ s.pattern # ""
    /\ ValidStdio(lsp.stdio)

Valid(c) ==
    /\ c.root # None => ~Empty(c.root)
    /\ c.servers # <<>> \/ c.lsps # <<>>
    /\ \A v \in ToSet(c.identities) : v.text \in AbsolutePaths
    /\ \A s \in ToSet(c.servers) : ValidServer(s)
    /\ \A l \in ToSet(c.lsps) : ValidLSP(l)

Workspace == [as |-> "", text |-> "workspace"]
Scoped(definitions) ==
    [i \in 1..Len(definitions) |-> [definitions[i] EXCEPT !.scope = IF @ = None THEN Workspace ELSE @]]

WithDefaults(c) ==
    [c EXCEPT !.gitRoot = IF @ = None THEN [as |-> "", text |-> TRUE] ELSE @,
              !.servers = Scoped(@), !.lsps = Scoped(@)]

materializeValue(v) ==
    IF v # None /\ v.as = "template" THEN [as |-> "", text |-> Expansion[v.text]] ELSE v
MaterializeEntries(entries) ==
    [i \in 1..Len(entries) |-> [name |-> entries[i].name, value |-> materializeValue(entries[i].value)]]

materializeStdio(stdio) ==
    [command |-> materializeValue(stdio.command),
     args |-> [i \in 1..Len(stdio.args) |-> materializeValue(stdio.args[i])],
     env |-> MaterializeEntries(stdio.env)]

materializeOAuth(oauth) ==
    IF oauth = NoSlot THEN NoSlot
    ELSE [clientId |-> materializeValue(oauth.clientId),
          clientSecret |-> materializeValue(oauth.clientSecret),
          redirectUri |-> materializeValue(oauth.redirectUri)]

materializeHTTP(http) ==
    [kind |-> http.kind, endpoint |-> materializeValue(http.endpoint),
     query |-> MaterializeEntries(http.query), headers |-> MaterializeEntries(http.headers),
     oauth |-> materializeOAuth(http.oauth)]

materializeServer(server) ==
    IF server.http = NoSlot THEN [server EXCEPT !.stdio = materializeStdio(@)]
    ELSE [server EXCEPT !.http = materializeHTTP(@)]

(* The values of a definition, and the templates among them. *)
EntryValues(entries) == {e.value : e \in ToSet(entries)}
ValuesIn(server) ==
    (IF server.http = NoSlot
     THEN {server.stdio.command} \cup ToSet(server.stdio.args) \cup EntryValues(server.stdio.env)
     ELSE {server.http.endpoint} \cup EntryValues(server.http.query) \cup EntryValues(server.http.headers)
          \cup (IF server.http.oauth = NoSlot THEN {}
                ELSE {server.http.oauth.clientId, server.http.oauth.clientSecret, server.http.oauth.redirectUri}))
    \ {None}
Templates(server) == {v.text : v \in {w \in ValuesIn(server) : w.as = "template"}}

ValidateMaterialized(server) ==
    IF server.http = NoSlot THEN server.stdio.command.text # ""
    ELSE /\ server.http.endpoint.text \in Destinations
         /\ server.http.oauth # NoSlot =>
               /\ server.http.oauth.clientId.text # ""
               /\ server.http.oauth.redirectUri.text \in Destinations

-----------------------------------------------------------------------------
Init == phase = "reading" /\ read = <<>> /\ next = 0 /\ config = EmptyConfig

(* Load: one more file, which the parser accepts or refuses. *)
Load(d) ==
    /\ phase = "reading" /\ Len(read) < MaxSources
    /\ IF Accepts(d) THEN read' = Append(read, d) /\ UNCHANGED phase
                     ELSE phase' = "failed" /\ UNCHANGED read
    /\ UNCHANGED <<next, config>>

ComposeNext ==
    /\ phase \in {"reading", "composing"} /\ next < Len(read)
    /\ phase' = "composing"
    /\ next' = next + 1
    /\ config' = Compose(config, read[next + 1])
    /\ UNCHANGED read

(* The end of Compose: the defaults, and what is complete. *)
Complete ==
    /\ phase = "composing" /\ next = Len(read)
    /\ config' = WithDefaults(config)
    /\ phase' = IF Valid(WithDefaults(config)) THEN "done" ELSE "failed"
    /\ UNCHANGED <<read, next>>

(* materializeServer, for the server an invocation selects in its context. *)
Materialize(i, context) ==
    LET server == config.servers[i]
    IN /\ phase = "done"
       /\ IF Templates(server) \subseteq context /\ ValidateMaterialized(materializeServer(server))
          THEN phase' = "ready" /\ config' = [config EXCEPT !.servers = <<materializeServer(server)>>]
          ELSE phase' = "failed" /\ UNCHANGED config
       /\ UNCHANGED <<read, next>>

Next ==
    \/ \E d \in Documents : Load(d)
    \/ ComposeNext
    \/ Complete
    \/ \E i \in 1..Len(config.servers) : \E context \in Contexts : Materialize(i, context)

Spec == Init /\ [][Next]_vars
-----------------------------------------------------------------------------
(* What docs/configuration.md says of the result, file by file and field by   *)
(* field: the strongest value given, in the order names were introduced, and  *)
(* of a transport only what follows its last change of kind.  A look at all   *)
(* files at once: what they give is a function on the files that give it.     *)

StrongestOf(given, nothing) ==
    LET giving == {i \in DOMAIN given : given[i] # nothing}
    IN IF giving = {} THEN nothing ELSE given[Max(giving)]

(* What the files list, by its place: which file, and where in it.            *)
Listed(lists) ==
    [x \in UNION {{i} \X (1..Len(lists[i])) : i \in DOMAIN lists} |-> lists[x[1]][x[2]]]
Before(x, y) == x[1] < y[1] \/ (x[1] = y[1] /\ x[2] < y[2])

(* Each name once, in the order they were introduced.                         *)
InOrder(names, listed) ==
    /\ {names[p] : p \in DOMAIN names} = {listed[x] : x \in DOMAIN listed}
    /\ \A p, q \in DOMAIN names : p < q =>
          \E x \in DOMAIN listed :
              /\ listed[x] = names[p]
              /\ \A y \in DOMAIN listed : listed[y] = names[q] => Before(x, y)

(* One field of each name, as it was given last.                              *)
Merged(fields, listed, kind) ==
    /\ fields \in Seq({listed[x] : x \in DOMAIN listed})
    /\ InOrder([p \in DOMAIN fields |-> httpFieldKey(kind, fields[p].name)],
               [x \in DOMAIN listed |-> httpFieldKey(kind, listed[x].name)])
    /\ \A p \in DOMAIN fields : \E x \in DOMAIN listed :
          /\ fields[p] = listed[x]
          /\ \A y \in DOMAIN listed :
                httpFieldKey(kind, listed[y].name) = httpFieldKey(kind, listed[x].name) =>
                    y = x \/ Before(y, x)

FieldsGiven(fields, at, kind) == Merged(fields, Listed([i \in DOMAIN at |-> Entries(at[i], kind)]), kind)

(* The child of a kind, of the nodes that have one.                           *)
Within(at, kind) == [i \in {j \in DOMAIN at : Has(at[j], kind)} |-> The(at[i], kind)]

StdioGiven(stdio, at) ==
    /\ stdio = [command |-> StrongestOf([i \in DOMAIN at |-> Argument(at[i])], None),
                args |-> StrongestOf([i \in DOMAIN at |-> ValuesOf(at[i], "arg")], <<>>),
                env |-> stdio.env]
    /\ FieldsGiven(stdio.env, at, "env")

OAuthGiven(oauth, at) ==
    LET Nearest(kind) == StrongestOf([i \in DOMAIN at |-> ValueOf(at[i], kind)], None)
    IN oauth = [clientId |-> Nearest("client-id"), clientSecret |-> Nearest("client-secret"),
                redirectUri |-> Nearest("redirect-uri")]

HTTPGiven(http, at) ==
    /\ \A i \in DOMAIN at : http.kind = at[i].kind
    /\ http = [kind |-> http.kind,
               endpoint |-> StrongestOf([i \in DOMAIN at |-> Argument(at[i])], None),
               query |-> http.query, headers |-> http.headers, oauth |-> http.oauth]
    /\ FieldsGiven(http.query, at, "query") /\ FieldsGiven(http.headers, at, "header")
    /\ http.oauth = NoSlot <=> Within(at, "oauth") = <<>>
    /\ http.oauth # NoSlot => OAuthGiven(http.oauth, Within(at, "oauth"))

(* A slot holds what those nodes give, or nothing when there are none.        *)
StdioSlot(slot, at) == (slot = NoSlot <=> at = <<>>) /\ (slot # NoSlot => StdioGiven(slot, at))
HTTPSlot(slot, at) == (slot = NoSlot <=> at = <<>>) /\ (slot # NoSlot => HTTPGiven(slot, at))

(* The transports, and those after the last change of kind.                   *)
TransportsOf(at) ==
    [i \in {j \in DOMAIN at : TransportOf(at[j]) # <<>>} |-> TransportOf(at[i])[1]]
LastRun(at) ==
    [i \in {j \in DOMAIN at : \A k \in DOMAIN at : k >= j => at[k].kind = at[j].kind} |-> at[i]]

ServerGiven(server, name, at, scope) ==
    LET run == LastRun(TransportsOf(at))
        local == \E i \in DOMAIN run : run[i].kind = "stdio"
    IN /\ server = [name |-> name,
                    scope |-> Stronger(scope, StrongestOf([i \in DOMAIN at |-> ValueOf(at[i], "scope")], None)),
                    stdio |-> server.stdio, http |-> server.http]
       /\ StdioSlot(server.stdio, IF local THEN run ELSE <<>>)
       /\ HTTPSlot(server.http, IF local THEN <<>> ELSE run)

LSPGiven(lsp, name, at, scope) ==
    LET Nearest(kind) == StrongestOf([i \in DOMAIN at |-> ValueOf(at[i], kind)], None)
    IN /\ lsp = [name |-> name, scope |-> Stronger(scope, Nearest("scope")),
                 implementationId |-> Nearest("implementation-id"),
                 selectors |-> StrongestOf([i \in DOMAIN at |-> Selectors(at[i])], <<>>),
                 options |-> Nearest("initialization-options"), stdio |-> lsp.stdio]
       /\ StdioSlot(lsp.stdio, Within(at, "stdio"))

Defines(file, kind, name) == \E n \in ToSet(Kids(file, kind)) : Key(n) = name
Definitions(files, kind, name) ==
    [i \in {j \in DOMAIN files : Defines(files[j], kind, name)} |->
        CHOOSE n \in ToSet(Kids(files[i], kind)) : Key(n) = name]

Given(definition, kind, name, at, scope) ==
    IF kind = "mcp" THEN ServerGiven(definition, name, at, scope) ELSE LSPGiven(definition, name, at, scope)

KeysOf(n, kind) == [p \in 1..Len(Kids(n, kind)) |-> Key(Kids(n, kind)[p])]

NamedGiven(definitions, kind, files, scope) ==
    /\ definitions \in Seq(ToSet(definitions))
    /\ InOrder([p \in DOMAIN definitions |-> definitions[p].name],
               Listed([i \in DOMAIN files |-> KeysOf(files[i], kind)]))
    /\ \A p \in DOMAIN definitions :
          LET name == definitions[p].name
          IN Given(definitions[p], kind, name, Definitions(files, kind, name), scope)

(* The configuration that the files give, where what none of them gives is as *)
(* in defaults.                                                               *)
Documented(c, files, defaults) ==
    /\ c = [root |-> StrongestOf([i \in DOMAIN files |-> ValueOf(files[i], "root")], None),
            gitRoot |-> Stronger(defaults.gitRoot,
                                 StrongestOf([i \in DOMAIN files |-> ValueOf(files[i], "git-root")], None)),
            identities |-> StrongestOf([i \in DOMAIN files |-> Identities(files[i])], <<>>),
            servers |-> c.servers, lsps |-> c.lsps]
    /\ NamedGiven(c.servers, "mcp", files, defaults.scope)
    /\ NamedGiven(c.lsps, "lsp", files, defaults.scope)

Defaults == [gitRoot |-> [as |-> "", text |-> TRUE], scope |-> Workspace]

(* A configuration that is accepted is the one documented: composing file     *)
(* after file, with its slots for a local and a remote transport, gives each  *)
(* field what a look at all files at once gives it.  So nothing of a replaced *)
(* transport, a credential least of all, survives into its successor.  And    *)
(* once expanded for an invocation, no template is left in it.                *)
ComposedAsDocumented ==
    /\ phase = "done" => Documented(config, read, Defaults)
    /\ phase = "ready" => Templates(config.servers[1]) = {}
=============================================================================
