------------------------------ MODULE MCConfig ------------------------------
(* Configuration files for MCInvocation: partial definitions of the server s  *)
(* and the language server l whose composition changes transports, overrides  *)
(* fields and repeats names, and files that break one rule of the parser each. *)
EXTENDS Naturals, Sequences

Text(t) == [as |-> "", text |-> t]
Secret(t) == [as |-> "secret", text |-> t]
Template(t) == [as |-> "template", text |-> t]

Node(kind, args, kids) == [kind |-> kind, plain |-> TRUE, args |-> args, props |-> <<>>, kids |-> kids]
Named(kind, name, value) ==
    [kind |-> kind, plain |-> TRUE, args |-> <<>>, props |-> <<[name |-> name, value |-> value]>>, kids |-> <<>>]
Selector(language, pattern) ==
    [kind |-> "selector", plain |-> TRUE, args |-> <<>>, kids |-> <<>>,
     props |-> <<[name |-> "language-id", value |-> Text(language)]>>
               \o (IF pattern = "" THEN <<>> ELSE <<[name |-> "pattern", value |-> Text(pattern)]>>)]
One(kind, value) == Node(kind, <<value>>, <<>>)
Root(kids) == Node("wirecmd", <<>>, kids)
Mcp(name, kids) == Root(<<Node("mcp", <<Text(name)>>, kids)>>)
Lsp(kids) == Root(<<Node("lsp", <<Text("l")>>, kids)>>)

OAuth == Node("oauth", <<>>, <<One("client-id", Text("id")), One("client-secret", Secret("sec")),
                              One("redirect-uri", Text("loop"))>>)

Good ==
    {Mcp("s", <<Node("stdio", <<Text("run")>>, <<One("arg", Text("a1")), Named("env", "A", Text("1")), Named("env", "B", Secret("2"))>>)>>),
     Mcp("s", <<Node("stdio", <<>>, <<One("arg", Template("cwd")), Named("env", "C", Text("3")), Named("env", "A", Text("4"))>>)>>),
     Mcp("s", <<Node("http", <<Text("url")>>, <<Named("header", "X-Key", Secret("k1")), Named("query", "q", Text("1")), OAuth>>)>>),
     Mcp("s", <<Node("http", <<>>, <<Named("header", "x-key", Secret("k2")), Named("header", "Authorization", Secret("k3"))>>)>>),
     Mcp("s", <<Node("http", <<Template("global")>>, <<Node("oauth", <<>>, <<One("client-id", Text("id2"))>>)>>)>>),
     Mcp("s", <<Node("sse", <<Text("url")>>, <<Named("query", "Q", Text("2"))>>)>>),
     Mcp("s", <<Node("sse", <<>>, <<Named("header", "Host", Text("h"))>>), One("scope", Text("global"))>>),
     Root(<<One("root", Text("r1")), Node("mcp", <<Text("t")>>, <<Node("stdio", <<Text("run")>>, <<>>)>>),
            Node("mcp", <<Text("s")>>, <<One("scope", Text("odd"))>>)>>),
     Root(<<One("root", Text("")), One("git-root", Text(FALSE)),
            Node("secrets", <<>>, <<Node("age", <<>>, <<One("identity", Text("/k")), One("identity", Text("k"))>>)>>)>>),
     Root(<<One("root", Text("r2")), One("git-root", Text(TRUE)),
            Node("secrets", <<>>, <<Node("age", <<>>, <<One("identity", Text("/k2"))>>)>>)>>),
     Lsp(<<Selector("go", ""), Selector("mod", "*.mod"), Node("stdio", <<Text("ls")>>, <<One("arg", Text("a2"))>>)>>),
     Lsp(<<One("implementation-id", Text("")), One("initialization-options", Template("cwd")), Node("stdio", <<>>, <<Named("env", "A", Text("5"))>>)>>),
     Lsp(<<Selector("rs", "*"), One("implementation-id", Text("i")), One("scope", Text("global"))>>)}

(* Each breaks one rule: two transports, a header twice but for its case, an *)
(* OAuth client over SSE, a secret executable, a server twice, no language.  *)
Refused ==
    {Mcp("s", <<Node("stdio", <<Text("run")>>, <<>>), Node("http", <<Text("url")>>, <<>>)>>),
     Mcp("s", <<Node("http", <<Text("url")>>, <<Named("header", "X-Key", Text("1")), Named("header", "x-key", Text("2"))>>)>>),
     Mcp("s", <<Node("sse", <<Text("url")>>, <<OAuth>>)>>),
     Mcp("s", <<Node("stdio", <<Secret("run")>>, <<>>)>>),
     Root(<<Node("mcp", <<Text("s")>>, <<>>), Node("mcp", <<Text("s")>>, <<>>)>>),
     Lsp(<<Node("selector", <<>>, <<>>)>>)}

MCDocuments == Good \cup Refused
MCLowerCase == [n \in {"X-Key", "Authorization", "Host"} |->
                    CASE n = "X-Key" -> "x-key" [] n = "Authorization" -> "authorization" [] OTHER -> "host"]
MCExpansion == [t \in {"cwd", "global"} |-> IF t = "cwd" THEN "/w" ELSE "url"]
MCContexts == {{"cwd"}, {"cwd", "global"}}
=============================================================================
