----------------------------- MODULE Annotations -----------------------------
(***************************************************************************)
(* The annotation parsers of internal/annotations and the validators of    *)
(* parser/validators.go.  An Ingress's annotation map is a function from   *)
(* the annotation keys (the part after "ingress.nginx.kubebuilder.io/") to *)
(* a value or Missing.  Values the parsers match with regular expressions  *)
(* (paths, hosts, targets, IP lists) are sequences of characters; boolean  *)
(* values are the strings strconv.ParseBool is given.                      *)
(***************************************************************************)
EXTENDS Weight, FiniteSets

CONSTANTS Missing   \* the key is not in the annotation map

\* The characters the values are made of, in byte order.
Alphabet == <<" ", "$", "(", ")", ",", "-", ".", "/",
              "0", "1", "2", "3", "4", "5", "6", "7", "8", "9",
              "[", "]", "_", "a", "b", "c", "d", "e", "f", "g", "h", "i",
              "j", "k", "l", "m", "n", "o", "p", "q", "r", "s", "t", "u",
              "v", "w", "x", "y", "z">>
Ord(ch)   == CHOOSE i \in DOMAIN Alphabet : Alphabet[i] = ch
InRange(ch, lo, hi) == Ord(lo) <= Ord(ch) /\ Ord(ch) <= Ord(hi)
Digit(ch) == InRange(ch, "0", "9")
Lower(ch) == InRange(ch, "a", "z")
Word(ch)  == Digit(ch) \/ Lower(ch) \/ ch = "_"      \* \w, upper case unused

\* sort.Strings order: bytewise, a prefix first
RECURSIVE LexLess(_, _)
LexLess(a, b) ==
    CASE b = <<>> -> FALSE
      [] a = <<>> -> TRUE
      [] Ord(a[1]) # Ord(b[1]) -> Ord(a[1]) < Ord(b[1])
      [] OTHER -> LexLess(Tail(a), Tail(b))

\* strings.Split: n separators give n + 1 fields, "" gives one empty field
RECURSIVE Split(_, _)
Split(s, sep) ==
    LET i == SelectInSeq(s, LAMBDA ch : ch = sep)
    IN  IF i = 0 THEN <<s>>
        ELSE <<SubSeq(s, 1, i - 1)>> \o Split(SubSeq(s, i + 1, Len(s)), sep)

\* strings.TrimSpace for the blanks that occur here
TrimSpace(s) ==
    LET first == SelectInSeq(s, LAMBDA ch : ch # " ")
        last  == SelectLastInSeq(s, LAMBDA ch : ch # " ")
    IN  IF first = 0 THEN <<>> ELSE SubSeq(s, first, last)

----------------------------------------------------------------------------
(* parser/validators.go: the regular expressions, by what they match.      *)

DigitsIn(s, a, b) == a <= b /\ \A p \in a..b : Digit(s[p])

\* ^\/(?:.*\(.+\).*|.*\[[^\[\]]+\].*)
IsRegexPatternRegex(s) ==
    /\ Len(s) >= 1
    /\ s[1] = "/"
    /\ \/ \E i, j \in 2..Len(s) : s[i] = "(" /\ s[j] = ")" /\ j > i + 1
       \/ \E i, j \in 2..Len(s) :
             /\ s[i] = "[" /\ s[j] = "]" /\ j > i + 1
             /\ \A k \in i+1..j-1 : s[k] \notin {"[", "]"}

\* ^\/(\w+)|^/\$([0-9])$|^\$([0-9])$
IsTargetPathRegex(s) ==
    \/ Len(s) >= 2 /\ s[1] = "/" /\ Word(s[2])
    \/ Len(s) = 3 /\ s[1] = "/" /\ s[2] = "$" /\ Digit(s[3])
    \/ Len(s) = 2 /\ s[1] = "$" /\ Digit(s[2])

\* ^(\d+).((\d+).){2}(\d+)$ -- the dots are unescaped: any character
PassIsIp(s) ==
    \E i, j, k \in 1..Len(s) :
        /\ DigitsIn(s, 1, i - 1) /\ DigitsIn(s, i + 1, j - 1)
        /\ DigitsIn(s, j + 1, k - 1) /\ DigitsIn(s, k + 1, Len(s))

\* ([a0-z9]+\.)+([a-z]+), unanchored; [a0-z9] is the byte range '0'..'z'
IsValidHost(s) ==
    \E i \in 2..Len(s) - 1 :
        s[i] = "." /\ InRange(s[i - 1], "0", "z") /\ Lower(s[i + 1])

----------------------------------------------------------------------------
(* parser/main.go: the readers.  CheckAnnotationsKey turns a missing or    *)
(* empty value into an error, which every parser logs and ignores, so the  *)
(* field keeps its zero value; parseBool's error likewise yields false.    *)

GetStringAnnotation(raw, k) == IF raw[k] = Missing THEN <<>> ELSE raw[k]

GetBoolAnnotations(raw, k) == raw[k] \in {"1", "t", "T", "TRUE", "true", "True"}

\* Error kinds of internal/errors beyond the weight parser's
Validation               == "ValidationError"
InvalidIngressContent    == "InvalidIngressContent"
MissAnnotations          == "MissAnnotations"
InvalidAnnotationContent == "InvalidAnnotationContent"
RiskyAnnotation          == "RiskyAnnotationError"

Ok(v) == [err |-> "none", val |-> v]
Fail(kind) == [err |-> kind]

----------------------------------------------------------------------------
(* The parsers' Parse, one operator each.                                  *)

\* Mutation: the check on an IP proxy-host with proxy-sslstapling is dropped.
ProxyParseNoIpSslCheck(raw) ==
    LET path   == GetStringAnnotation(raw, "proxy-path")
        target == GetStringAnnotation(raw, "proxy-target")
        rx     == GetBoolAnnotations(raw, "proxy-enable-regex")
    IN  CASE target # <<>> /\ ~IsTargetPathRegex(target) -> Fail(Validation)
          [] IsRegexPatternRegex(path) /\ ~rx /\ target = <<>> -> Fail(Validation)
          [] rx /\ ~IsRegexPatternRegex(path) -> Fail(Validation)
          [] target # <<>> /\ ~IsRegexPatternRegex(path) -> Fail(Validation)
          [] OTHER -> Ok([path |-> IF target # <<>> \/ rx
                                   THEN <<"~", " ", "^">> \o path ELSE path,
                          targetPath |-> path,
                          host |-> GetStringAnnotation(raw, "proxy-host"),
                          target |-> target,
                          ssl |-> GetBoolAnnotations(raw, "proxy-sslstapling"),
                          enableRegex |-> rx])

formatProxyPath(path, target, rx) ==
    IF target # <<>> \/ rx THEN <<"~", " ", "^">> \o path ELSE path

ProxyParse(raw) ==
    LET path   == GetStringAnnotation(raw, "proxy-path")
        host   == GetStringAnnotation(raw, "proxy-host")
        target == GetStringAnnotation(raw, "proxy-target")
        ssl    == GetBoolAnnotations(raw, "proxy-sslstapling")
        rx     == GetBoolAnnotations(raw, "proxy-enable-regex")
    IN  CASE target # <<>> /\ ~IsTargetPathRegex(target) -> Fail(Validation)
          [] IsRegexPatternRegex(path) /\ ~rx /\ target = <<>> -> Fail(Validation)
          [] rx /\ ~IsRegexPatternRegex(path) -> Fail(Validation)
          [] target # <<>> /\ ~IsRegexPatternRegex(path) -> Fail(Validation)
          [] PassIsIp(host) /\ ssl -> Fail(Validation)
          [] OTHER -> Ok([path |-> formatProxyPath(path, target, rx),
                          targetPath |-> path, host |-> host,
                          target |-> target, ssl |-> ssl, enableRegex |-> rx])

\* rewrite returns its config together with the error; Extract drops both
RewriteParse(raw) ==
    LET target == GetStringAnnotation(raw, "rewrite-target")
        rx     == GetBoolAnnotations(raw, "enable-regex")
    IN  IF target # <<>> /\ ~IsTargetPathRegex(target) THEN Fail(Validation)
        ELSE Ok([rewriteTarget |-> target, enableRegex |-> rx])

RedirectParse(raw) ==
    LET host == GetStringAnnotation(raw, "redirect-host")
        path == GetStringAnnotation(raw, "redirect-path")
    IN  IF path # <<>> /\ ~IsValidHost(host) THEN Fail(InvalidAnnotationContent)
        ELSE Ok([host |-> host, path |-> path])

SSLStaplingParse(raw) ==
    Ok([verify |-> GetBoolAnnotations(raw, "ssl-stapling-verify"),
        stapling |-> GetBoolAnnotations(raw, "ssl-stapling")])

AllowCosParse(raw) == Ok([allowCos |-> GetBoolAnnotations(raw, "use-cos")])

\* Mutation: the field is checked and stored without strings.TrimSpace.
RECURSIVE SourceRangeLoopNoTrim(_, _)
SourceRangeLoopNoTrim(fields, aliases) ==
    IF fields = <<>> THEN Ok(SetToSortSeq(aliases, LexLess))
    ELSE LET alias == Head(fields)
         IN  CASE alias = <<>> -> SourceRangeLoopNoTrim(Tail(fields), aliases)
               [] ~PassIsIp(alias) -> Fail(InvalidAnnotationContent)
               [] OTHER -> SourceRangeLoopNoTrim(Tail(fields),
                             aliases \cup {alias})

(* The loop of ipallowlist/ipdenylist Parse over strings.Split(val, ","): *)
(* trim, skip empty fields, fail on the first field that is not an IP,     *)
(* insert into a sets.String; List() returns it sorted.                    *)
RECURSIVE SourceRangeLoop(_, _)
SourceRangeLoop(fields, aliases) ==
    IF fields = <<>> THEN Ok(SetToSortSeq(aliases, LexLess))
    ELSE LET alias == TrimSpace(Head(fields))
         IN  CASE alias = <<>> -> SourceRangeLoop(Tail(fields), aliases)
               [] ~PassIsIp(alias) -> Fail(InvalidAnnotationContent)
               [] OTHER -> SourceRangeLoop(Tail(fields),
                             IF alias \in aliases THEN aliases
                             ELSE aliases \cup {alias})

AllowListParse(raw) ==
    SourceRangeLoop(Split(GetStringAnnotation(raw, "allowList"), ","), {})

\* ipdenylist calls parser.IsIp, which the repository does not define; the
\* spec gives both lists the same dotted-quad check, PassIsIp.
DenyListParse(raw) ==
    SourceRangeLoop(Split(GetStringAnnotation(raw, "denyList"), ","), {})

\* weight.Parse: use-lb and use-weight read as booleans, then Weight's Parse
WeightParse(ing, raw) ==
    LET r == Parse(ing, [useLb |-> GetBoolAnnotations(raw, "use-lb"),
                         useWeight |-> GetBoolAnnotations(raw, "use-weight")])
    IN  IF r.err = "none" THEN Ok(r.bw) ELSE Fail(r.err)

----------------------------------------------------------------------------
(* The Extractor's parser map and each parser's Validate.                  *)

Parsers == {"Proxy", "Redirect", "AllowList", "DenyList", "Rewrite",
            "SSLStapling", "AllowCos", "Weight"}

\* the keys of each parser's AnnotationFields
Fields == [n \in Parsers |->
    CASE n = "Proxy" -> {"proxy-path", "proxy-host", "proxy-target",
                         "proxy-sslstapling", "proxy-enable-regex"}
      [] n = "Redirect" -> {"redirect-host", "redirect-path"}
      [] n = "AllowList" -> {"allowList"}
      [] n = "DenyList" -> {"denyList"}
      [] n = "Rewrite" -> {"rewrite-target", "enable-regex"}
      [] n = "SSLStapling" -> {"ssl-stapling-verify", "ssl-stapling"}
      [] n = "AllowCos" -> {"use-cos"}
      [] n = "Weight" -> {"use-weight", "use-lb", "lb-policy"}]

Keys == UNION {Fields[n] : n \in Parsers}

\* The keys whose AnnotationConfig has an empty Doc: none in the code.
Undocumented == {}

\* CheckAnnotations: a present key of this parser without a description
CheckAnnotations(n, raw) == \E k \in Fields[n] \cap Undocumented : raw[k] # Missing

ParseOf(n, ing, raw) ==
    CASE n = "Proxy" -> ProxyParse(raw)
      [] n = "Redirect" -> RedirectParse(raw)
      [] n = "AllowList" -> AllowListParse(raw)
      [] n = "DenyList" -> DenyListParse(raw)
      [] n = "Rewrite" -> RewriteParse(raw)
      [] n = "SSLStapling" -> SSLStaplingParse(raw)
      [] n = "AllowCos" -> AllowCosParse(raw)
      [] n = "Weight" -> WeightParse(ing, raw)

\* Mutation: the triage forgets InvalidContent, the weight parser's error
\* for a path without a weight under use-weight.
ExtractAbortsNoInvalidContent ==
    {Validation, InvalidIngressContent, InvalidAnnotationContent,
     MissResources, NotSatisfiable, MissAnnotations}

\* The error kinds on which Extract returns; any other error is skipped.
ExtractAborts ==
    {Validation, InvalidIngressContent, InvalidAnnotationContent,
     MissResources, NotSatisfiable, MissAnnotations, InvalidContent}

(* One parser's turn in Extract's loop: Validate, then Parse.             *)
ExtractResult(n, ing, raw) ==
    IF CheckAnnotations(n, raw) THEN Fail(RiskyAnnotation)
    ELSE ParseOf(n, ing, raw)

Aborts(r) == r.err = RiskyAnnotation \/ r.err \in ExtractAborts

=============================================================================
