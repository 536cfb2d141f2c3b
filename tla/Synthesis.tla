----------------------------- MODULE Synthesis -----------------------------
(***************************************************************************)
(* One reconciliation pass over an Ingress and its annotation map, from    *)
(* annotations.Extractor.Extract (annotations.go) to getBackendConfigure,  *)
(* checkIngressContent and formatPath (internal/controller/nginx.go) and   *)
(* GetUpstreamName, GetService and GetSvcPort (store/ingressInfo.go), and  *)
(* getDefaultBackendConfigure for an Ingress's default backend.            *)
(*                                                                         *)
(* A pass is up to three steps: Extract runs the eight parsers, and        *)
(* GenerateConfigure builds the server list (BackendConfigure) from the    *)
(* Rewrite and Weight fragments when Extract accepted the Ingress, then    *)
(* the default server (DefaultConfigure).  The input is an Ingress, its    *)
(* annotation map and the Services of its namespace (a cluster): any       *)
(* Ingress with any of BackendRaws, or one of AnnotIngs with any of        *)
(* AnnotRaws, against DefaultCluster, or one of PortIngs with any of       *)
(* PortRaws against any of Clusters.  The properties relate the output to  *)
(* the input.                                                              *)
(***************************************************************************)
EXTENDS Annotations

CONSTANTS
    IngName, IngNs,   \* the Ingress's name and namespace (strings)
    PathStrs,         \* path strings, as sequences of characters
    SvcNames,         \* service names (strings)
    Weights,          \* Service.Weight values, NoWeight included
    PortRefs,         \* backend port references [number, name]
    MaxRules, MaxPaths,
    BackendRaws,      \* annotation maps tried on every Ingress
    AnnotIngs,        \* a few Ingresses tried with ...
    AnnotRaws,        \* ... a richer set of annotation maps
    PortIngs,         \* Ingresses tried against every cluster ...
    PortRaws,         \* ... with these annotation maps
    DefaultCluster,   \* the Services the other Ingresses are tried with
    Clusters,         \* clusters: service name -> its ports, or NotFound
    NotFound,         \* r.Get of the Service returns NotFound
    NoDefault,        \* Spec.DefaultBackend is nil
    NotRun            \* a step that has not happened yet

PathEntry == [path : PathStrs, svc : SvcNames, weight : Weights, ref : PortRefs]
Rule      == BoundedSeq(PathEntry, MaxPaths)
Ingresses == [name : {IngName}, ns : {IngNs},
              rules : BoundedSeq(Rule, MaxRules), dflt : {NoDefault}]

\* GetService: r.Get of the Service in the Ingress's namespace
GetService(cl, name) == cl[name] # NotFound

\* GetSvcPort: the first port of the Service whose number or whose name
\* equals the reference's; the result is the reference's Port.Number.
GetSvcPort(cl, svc, ref) ==
    IF ~GetService(cl, svc) THEN NoPort
    ELSE IF \E sp \in cl[svc] : sp.number = ref.number \/ sp.name = ref.name
         THEN ref.number ELSE NoPort

\* A path entry with the resolver's answers for its backend, as the weight
\* parser and getBackendConfigure see them.
Resolve(cl, p) ==
    [path |-> p.path, svc |-> p.svc, weight |-> p.weight,
     found |-> GetService(cl, p.svc), port |-> GetSvcPort(cl, p.svc, p.ref)]
Resolved(cl, i) ==
    [i EXCEPT !.rules = [k \in DOMAIN i.rules |->
                          [j \in DOMAIN i.rules[k] |-> Resolve(cl, i.rules[k][j])]]]

\* An annotation map: the listed keys set to their values, the rest absent.
RawOf(kv) == [k \in Keys |-> IF k \in DOMAIN kv THEN kv[k] ELSE Missing]

RegexMode(ann) == ann.enableRegex \/ ann.rewriteTarget # <<>>

\* formatPath: prefix "~ ^" when enable-regex or rewrite-target is set
formatPath(path, ann) ==
    IF RegexMode(ann) THEN <<"~", " ", "^">> \o path ELSE path

\* Mutation: the rewrite-target check (the third test) is dropped.
checkIngressContentNoRewriteCheck(path, ann) ==
    CASE IsRegexPatternRegex(path) /\ ~ann.enableRegex /\ ann.rewriteTarget = <<>>
              -> "missing valid annotations"
      [] ann.enableRegex /\ ~IsRegexPatternRegex(path) -> "not a regexp"
      [] OTHER -> "none"

\* checkIngressContent: a regex-looking path needs a regex annotation, and
\* either regex annotation needs a regex-looking path (the pathType check
\* only logs a warning).
checkIngressContent(path, ann) ==
    CASE IsRegexPatternRegex(path) /\ ~ann.enableRegex /\ ann.rewriteTarget = <<>>
              -> "missing valid annotations"
      [] ann.enableRegex /\ ~IsRegexPatternRegex(path) -> "not a regexp"
      [] ann.rewriteTarget # <<>> /\ ~IsRegexPatternRegex(path) -> "not a regexp"
      [] OTHER -> "none"

\* getUpstreamBackend: the name validateLbBackend registered for these paths
getUpstreamBackend(ing, paths) ==
    LET step(name, p) == IF name = "" THEN ing.name \o "-" \o ing.ns \o "-" \o p.svc
                         ELSE name \o "-" \o p.svc
    IN  FoldLeft(step, "", paths)

\* GetUpstreamName: the first registered upstream with that name, or ""
GetUpstreamName(ing, paths, up) ==
    LET hits == {k \in DOMAIN up : up[k].upstream = getUpstreamBackend(ing, paths)}
    IN  IF hits = {} THEN "" ELSE up[CHOOSE k \in hits : \A l \in hits : k <= l].upstream

Backend(p, ann, upstream) ==
    [path |-> formatPath(p.path, ann), targetPath |-> p.path,
     svc |-> p.svc, port |-> p.port, upstream |-> upstream]

\* Mutation: append(backend, b) instead of append(backend[:bk], b), which
\* keeps the nil entries make() created.
RECURSIVE BackendLoopKeepNil(_, _, _, _, _)
BackendLoopKeepNil(ps, bk, ann, upstream, backend) ==
    IF bk = Len(ps) THEN [err |-> "none", backend |-> backend]
    ELSE LET p == ps[bk + 1]
         IN  CASE checkIngressContent(p.path, ann) # "none"
                    -> [err |-> checkIngressContent(p.path, ann)]
               [] ~p.found -> [err |-> "service not found"]
               [] p.port = NoPort -> [err |-> "svc port not exists"]
               [] OTHER -> BackendLoopKeepNil(ps, bk + 1, ann, upstream,
                             Append(backend, Backend(p, ann, upstream)))

(* The inner loop over ingressPaths: backend starts as backendLen nil       *)
(* entries and each path b (0-based bk) does backend = append(backend[:bk], *)
(* b) after checkIngressContent, GetService and GetSvcPort.                *)
RECURSIVE BackendLoop(_, _, _, _, _)
BackendLoop(ps, bk, ann, upstream, backend) ==
    IF bk = Len(ps) THEN [err |-> "none", backend |-> backend]
    ELSE LET p == ps[bk + 1]
         IN  CASE checkIngressContent(p.path, ann) # "none"
                    -> [err |-> checkIngressContent(p.path, ann)]
               [] ~p.found -> [err |-> "service not found"]
               [] p.port = NoPort -> [err |-> "svc port not exists"]
               [] OTHER -> BackendLoop(ps, bk + 1, ann, upstream,
                             Append(SubSeq(backend, 1, bk), Backend(p, ann, upstream)))

(* The outer loop over rules: with use-lb a rule collapses to its first    *)
(* path (Paths[0], a panic on an empty rule) carrying the upstream name,   *)
(* and a missing name is an error.                                         *)
RECURSIVE RuleLoop(_, _, _, _, _)
RuleLoop(ing, ann, bw, k, servers) ==
    IF k = Len(ing.rules) THEN [err |-> "none", servers |-> servers]
    ELSE
      LET paths == ing.rules[k + 1]
      IN  IF bw.useLb /\ paths = <<>> THEN [err |-> "panic"]
          ELSE
            LET upstream == IF bw.useLb THEN GetUpstreamName(ing, paths, bw.up) ELSE ""
                ps       == IF bw.useLb THEN <<paths[1]>> ELSE paths
                r        == BackendLoop(ps, 0, ann, upstream,
                                        [i \in 1..Len(ps) |-> NotRun])
            IN  CASE bw.useLb /\ upstream = "" -> [err |-> "upstream name not found"]
                  [] r.err # "none" -> r
                  [] OTHER -> RuleLoop(ing, ann, bw, k + 1,
                                Append(SubSeq(servers, 1, k), r.backend))

getBackendConfigure(ing, ann, bw) ==
    RuleLoop(ing, ann, bw, 0, [i \in 1..Len(ing.rules) |-> NotRun])

\* The one server getDefaultBackendConfigure builds for a resolved port.
DefaultServer(d, port) ==
    <<[host |-> "default",
       paths |-> <<[path |-> <<"/">>, svc |-> d.svc, port |-> port]>>]>>

\* getDefaultBackendConfigure: GetService, then GetSvcPort, then one server
\* "default" with one backend at "/".
getDefaultBackendConfigure(cl, i) ==
    LET port == GetSvcPort(cl, i.dflt.svc, i.dflt.ref)
    IN  CASE ~GetService(cl, i.dflt.svc) -> [err |-> "service not found"]
          [] port = NoPort -> [err |-> "svc port not exists"]
          [] OTHER -> [err |-> "none", servers |-> DefaultServer(i.dflt, port)]

----------------------------------------------------------------------------
VARIABLES ing, raw, svcs, extracted, conf, dconf

vars == <<ing, raw, svcs, extracted, conf, dconf>>

Init ==
    /\ \/ ing \in Ingresses /\ raw \in BackendRaws /\ svcs = DefaultCluster
       \/ ing \in AnnotIngs /\ raw \in AnnotRaws /\ svcs = DefaultCluster
       \/ ing \in PortIngs /\ raw \in PortRaws /\ svcs \in Clusters
    /\ extracted = NotRun
    /\ conf = NotRun
    /\ dconf = NotRun

\* the Ingress as the resolver answers for it
RIng == Resolved(svcs, ing)

(* Extract: for name, parser := range e.annotations runs Validate and     *)
(* Parse and returns on the first error of an aborting kind.  Go visits   *)
(* the map in a random order, and every parser can come first, so when    *)
(* parsers abort the error is that of any one of them; otherwise every    *)
(* fragment is stored under its parser's name and merged.                 *)
Extract ==
    /\ extracted = NotRun
    /\ LET res     == [n \in Parsers |-> ExtractResult(n, RIng, raw)]
           failing == {n \in Parsers : Aborts(res[n])}
       IN  \/ /\ failing = {}
              /\ extracted' = [err |-> "none",
                               val |-> [n \in {m \in Parsers : res[m].err = "none"}
                                          |-> res[n].val]]
           \/ \E n \in failing : extracted' = [err |-> res[n].err, by |-> n]
    /\ UNCHANGED <<ing, raw, svcs, conf, dconf>>

\* the fragments getBackendConfigure reads
Rw == extracted.val["Rewrite"]
Wt == extracted.val["Weight"]

Accepted == extracted # NotRun /\ extracted.err = "none"

\* GenerateConfigure -> generateBackendTemplate -> getBackendConfigure,
\* entered only when the Ingress has rules
BackendConfigure ==
    /\ Accepted
    /\ ing.rules # <<>>
    /\ conf = NotRun
    /\ conf' = getBackendConfigure(RIng, Rw, Wt)
    /\ UNCHANGED <<ing, raw, svcs, extracted, dconf>>

\* GenerateConfigure -> generateDefaultBackendTemplate, entered when the
\* Ingress has a default backend and the rules' template (if any) was
\* generated without error
DefaultConfigure ==
    /\ Accepted
    /\ ing.dflt # NoDefault
    /\ ing.rules = <<>> \/ (conf # NotRun /\ conf.err = "none")
    /\ dconf = NotRun
    /\ dconf' = getDefaultBackendConfigure(svcs, ing)
    /\ UNCHANGED <<ing, raw, svcs, extracted, conf>>

Next == Extract \/ BackendConfigure \/ DefaultConfigure

Spec == Init /\ [][Next]_vars

----------------------------------------------------------------------------
(***************************************************************************)
(* Properties                                                              *)
(***************************************************************************)

\* The server list getBackendConfigure should build when every check passes:
\* server k mirrors rule k, each backend mirrors its path in declaration
\* order, and with use-lb a rule is one backend for its first path carrying
\* the rule's upstream group (spec 3, Server invariant).
ExpectedServers(i, a, bw) ==
    [k \in 1..Len(i.rules) |->
        LET ps == IF bw.useLb THEN <<i.rules[k][1]>> ELSE i.rules[k]
            up == IF bw.useLb THEN getUpstreamBackend(i, i.rules[k]) ELSE ""
        IN  [j \in 1..Len(ps) |-> Backend(ps[j], a, up)]]

Built == conf # NotRun /\ conf.err = "none"

\* The slice juggling of getBackendConfigure (make with len, then
\* append(x[:k], v)) yields exactly one server per rule and one backend per
\* path, in order, with no nil entry left over.
BackendsMirrorRules ==
    Built => conf.servers = ExpectedServers(RIng, Rw, Wt)

\* Spec 9: the upstream name getBackendConfigure looks up (GetUpstreamName)
\* is always one the weight parser registered in the same pass, so an
\* Ingress the parser accepted never fails with "upstream name not found".
UpstreamResolved ==
    conf # NotRun => conf.err # "upstream name not found"

\* getBackendConfigure indexes Paths[0] of every rule under use-lb; the
\* weight parser's empty-rule check must have rejected every Ingress on
\* which that would panic.
NoEmptyLbRule ==
    conf # NotRun => conf.err # "panic"

\* Spec 4.2(c) and 9: the weight parser and getBackendConfigure ask the
\* resolver the same questions (GetSvcPort for every path, GetService for
\* the path getBackendConfigure keeps), so an Ingress the parser accepted
\* with use-lb never fails later for a missing Service or port.
LbBackendsResolve ==
    (conf # NotRun /\ Wt.useLb) =>
        conf.err \notin {"service not found", "svc port not exists"}

\* Spec 4.4 and 8: a built backend's path looks like a regex exactly when
\* enable-regex or rewrite-target is set, and then, only then, its
\* effective path is the regex-anchored form "~ ^" + path.
RegexConsistent ==
    Built =>
      \A k \in DOMAIN conf.servers : \A j \in DOMAIN conf.servers[k] :
        LET b == conf.servers[k][j]
        IN  /\ IsRegexPatternRegex(b.targetPath) <=> RegexMode(Rw)
            /\ b.path = IF RegexMode(Rw) THEN <<"~", " ", "^">> \o b.targetPath
                                          ELSE b.targetPath

\* Spec 4.4: the default server is built exactly when the
\* default backend's Service and port resolve, and is then a single server
\* "default" with one backend at "/" for that Service and port; it is
\* never attempted after the rules' template failed.
DefaultBackendContract ==
    dconf # NotRun =>
      LET port == GetSvcPort(svcs, ing.dflt.svc, ing.dflt.ref)
      IN  /\ (dconf.err = "none") <=> port # NoPort
          /\ dconf.err = "none" => dconf.servers = DefaultServer(ing.dflt, port)
          /\ ing.rules # <<>> => Built

\* Spec 3 (Backend: resolved service port) and 4.2(c): every port a built
\* backend, of a rule or of the default server, proxies to is a port its
\* Service exposes.
BackendPortExposed ==
    /\ Built => \A k \in DOMAIN conf.servers : \A j \in DOMAIN conf.servers[k] :
                 LET b == conf.servers[k][j]
                 IN  \E sp \in svcs[b.svc] : sp.number = b.port
    /\ (dconf # NotRun /\ dconf.err = "none") =>
         LET b == dconf.servers[1].paths[1]
         IN  \E sp \in svcs[b.svc] : sp.number = b.port

\* Spec 4.2 and 8: with use-lb, the parser accepts an Ingress only when all
\* paths within each rule are textually identical.
LbPathsHomogeneous ==
    (Accepted /\ Wt.useLb) =>
        \A r \in Range(ing.rules) : \A a, b \in DOMAIN r : r[a].path = r[b].path


\* Spec 4.1 and 9: whatever order Extract visits the parsers in, it accepts
\* an Ingress exactly when no parser's Parse fails, the record then holds
\* every parser's fragment, and a rejection carries the error of a parser
\* that failed: no error kind a parser returns is skipped by the triage.
ExtractOutcome ==
    extracted # NotRun =>
      LET res == [n \in Parsers |-> ParseOf(n, RIng, raw)]
      IN  /\ (extracted.err = "none") <=> (\A n \in Parsers : res[n].err = "none")
          /\ extracted.err = "none" =>
                /\ DOMAIN extracted.val = Parsers
                /\ \A n \in Parsers : extracted.val[n] = res[n].val
          /\ extracted.err # "none" => extracted.err = res[extracted.by].err

\* The trimmed, non-empty comma-separated tokens of a list annotation.
ListKey == [AllowList |-> "allowList", DenyList |-> "denyList"]
Tokens(n) ==
    {TrimSpace(t) : t \in Range(Split(GetStringAnnotation(raw, ListKey[n]), ","))}
      \ {<<>>}

\* Spec 4.1 and 8: the ipallowlist and ipdenylist parsers accept a list
\* when every token has the dotted-quad shape, and then store the tokens as
\* a sorted set, so duplicates, blanks and token order make no difference.
ListNormalised ==
    extracted # NotRun =>
      \A n \in DOMAIN ListKey :
        /\ extracted.err = "none" =>
              extracted.val[n] = SetToSortSeq(Tokens(n), LexLess)
        /\ (extracted.err # "none" /\ extracted.by = n) =>
              \E t \in Tokens(n) : ~PassIsIp(t)

\* Spec 4.1: an accepted proxy fragment has a regex-looking path whenever
\* proxy-target or proxy-enable-regex is set, stores it then in the
\* anchored form "~ ^" + path, and never pairs an IP host with SSL.
ProxyContract ==
    (extracted # NotRun /\ extracted.err = "none") =>
      LET p == extracted.val["Proxy"]
          regexMode == p.target # <<>> \/ p.enableRegex
      IN  /\ regexMode => IsRegexPatternRegex(p.targetPath)
          /\ p.path = IF regexMode THEN <<"~", " ", "^">> \o p.targetPath
                                   ELSE p.targetPath
          /\ ~(PassIsIp(p.host) /\ p.ssl)

=============================================================================
