---------------------------- MODULE MCSynthesis ----------------------------
EXTENDS Synthesis

CONSTANTS noWeight, noPort, notRun, missing, notFound, noDefault

\* the empty path, a plain path and one that looks like a regex
MCPathStrs == {<<>>, <<"/", "a">>, <<"/", "(", "a", ")">>}
MCSvcNames == {"s1", "s2"}
MCWeights  == {noWeight, 0}
MCWeightsAll == {noWeight, 0, 1}

\* port references: by number, by a number no Service exposes, by name
ByNumber == [number |-> 80, name |-> ""]
Unexposed == [number |-> 81, name |-> ""]
ByName == [number |-> 0, name |-> "http"]
MCPortRefs == {ByNumber}
MCPortRefsAll == {ByNumber, Unexposed, ByName}

\* every Service exposes port 80 named http; s1 may instead expose an
\* unnamed port 80, or be missing
Named   == {[number |-> 80, name |-> "http"]}
Unnamed == {[number |-> 80, name |-> ""]}
MCDefaultCluster == [s \in MCSvcNames |-> Named]
MCClusters == {[MCDefaultCluster EXCEPT !["s1"] = c] : c \in {Named, Unnamed, notFound}}

\* Annotation values, as the character sequences the parsers see.
IP1     == <<"1", ".", "1", ".", "1", ".", "1">>
IP2     == <<"2", ".", "2", ".", "2", ".", "2">>
Target  == <<"/", "$", "1">>                \* a valid rewrite/proxy target
Bad     == <<"x">>                          \* matches none of the patterns
HostOk  == <<"a", ".", "b">>
HostBad == <<"a", "b">>
PlainP  == <<"/", "a">>
RegexP  == <<"/", "(", "a", ")">>
\* spec 8's example, a blank token, an out-of-order pair, a bad token
ListVals == {IP1 \o <<",", " ">> \o IP2 \o <<",">> \o IP1,
             <<" ">> \o IP2 \o <<",", ",">>,
             IP2 \o <<",">> \o IP1,
             IP1 \o <<",">> \o Bad}

\* The annotation maps in which each key of opts is absent or one of its
\* options, and every other key is absent.
RECURSIVE KeyChoices(_, _)
KeyChoices(opts, ks) ==
    IF ks = {} THEN {[k \in {} |-> Missing]}
    ELSE LET k == CHOOSE k \in ks : TRUE
         IN  {(k :> v) @@ f : v \in opts[k] \cup {Missing},
                              f \in KeyChoices(opts, ks \ {k})}
Maps(opts) == {RawOf(f) : f \in KeyChoices(opts, DOMAIN opts)}

\* What the backend synthesis reads: rewrite and weight, over every Ingress.
BackendOpts == ("rewrite-target" :> {Target}) @@ ("enable-regex" :> {"true"})
               @@ ("use-lb" :> {"true"}) @@ ("use-weight" :> {"1"})

ProxyOpts == ("proxy-path" :> {PlainP, RegexP}) @@ ("proxy-target" :> {Target, Bad})
             @@ ("proxy-host" :> {IP1, HostOk}) @@ ("proxy-enable-regex" :> {"true"})
             @@ ("proxy-sslstapling" :> {"true", "yes"})
OtherOpts == ("redirect-host" :> {HostOk, HostBad}) @@ ("redirect-path" :> {PlainP})
             @@ ("ssl-stapling" :> {"T", "0"}) @@ ("ssl-stapling-verify" :> {"1"})
             @@ ("use-cos" :> {"t", "on"})
ListOpts  == ("allowList" :> ListVals) @@ ("denyList" :> ListVals)
\* one failing value per parser, so that several parsers reject at once
MixOpts   == ("proxy-target" :> {Bad}) @@ ("redirect-path" :> {PlainP})
             @@ ("allowList" :> {IP1 \o <<",">> \o Bad}) @@ ("rewrite-target" :> {Bad})
             @@ ("use-lb" :> {"true"}) @@ ("use-weight" :> {"true"})

\* one-path Ingresses, with and without a weight
SmallIngs == {[name |-> IngName, ns |-> IngNs,
               rules |-> <<<<[path |-> PlainP, svc |-> "s1", weight |-> w,
                              ref |-> ByNumber]>>>>, dflt |-> noDefault]
              : w \in {0, noWeight}}

\* a one-path rule and a default backend, each on s1 by any reference, or
\* absent
MCPortIngs == {[name |-> IngName, ns |-> IngNs, rules |-> rs, dflt |-> d] :
                 rs \in {<<>>} \cup {<<<<[path |-> PlainP, svc |-> "s1",
                                         weight |-> noWeight, ref |-> r]>>>> :
                                      r \in MCPortRefsAll},
                 d \in {noDefault} \cup [svc : {"s1"}, ref : MCPortRefsAll]}
                \ {[name |-> IngName, ns |-> IngNs, rules |-> <<>>, dflt |-> noDefault]}
MCPortRaws == Maps(("use-lb" :> {"true"}))

MCBackendRaws == Maps(BackendOpts)
MCAnnotRaws == Maps(ProxyOpts) \cup Maps(OtherOpts) \cup Maps(ListOpts)
               \cup Maps(MixOpts)
=============================================================================
