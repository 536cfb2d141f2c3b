------------------------------- MODULE Weight -------------------------------
(***************************************************************************)
(* The weight annotation parser (internal/annotations/weight/main.go):     *)
(* with use-lb, validateLbBackend checks every rule of the Ingress and     *)
(* registers one upstream group per rule, named after the Ingress, its     *)
(* namespace and the services of the rule.                                 *)
(*                                                                         *)
(* An Ingress path entry is a record: its path (a sequence of characters,  *)
(* <<>> for the empty path), its service name (a string), its weight (a    *)
(* number or NoWeight) and whether the resolver finds its port.            *)
(***************************************************************************)
EXTENDS Naturals, Sequences, SequencesExt

CONSTANTS
    NoWeight,    \* Service.Weight is nil
    NoPort       \* GetSvcPort returns nil

\* The error kinds of internal/errors the parser can return; "none" is nil.
NotSatisfiable == "NotSatisfiable"
MissResources  == "MissResources"
InvalidContent == "InvalidContent"

\* inspectWeightVal: weight 0 is rendered as nginx's "down" marker
inspectWeightVal(w) == IF w = 0 THEN "down" ELSE ""

\* The text after "weight=" in a member line: the marker or the number.
WeightText(w) == IF inspectWeightVal(w) # "" THEN inspectWeightVal(w) ELSE w

\* One upstream member "%s.%s.svc:%d[ weight=%s]" as a record.
Member(p, useWeight) ==
    [svc |-> p.svc, port |-> p.port,
     weight |-> IF useWeight THEN WeightText(p.weight) ELSE NoWeight]

\* Mutation: the GetSvcPort nil check is dropped.
RECURSIVE LbPathsNoPortCheck(_, _, _, _)
LbPathsNoPortCheck(ing, useWeight, ps, acc) ==
    IF ps = <<>> THEN [err |-> "none", acc |-> acc]
    ELSE
      LET p    == Head(ps)
          path == IF acc.path = <<>> THEN p.path ELSE acc.path
      IN  CASE path # p.path                  -> [err |-> NotSatisfiable]
            [] useWeight /\ p.weight = NoWeight -> [err |-> InvalidContent]
            [] OTHER ->
                 LbPathsNoPortCheck(ing, useWeight, Tail(ps),
                   [path |-> path,
                    name |-> IF acc.name = ""
                             THEN ing.name \o "-" \o ing.ns \o "-" \o p.svc
                             ELSE acc.name \o "-" \o p.svc,
                    sl   |-> Append(acc.sl, Member(p, useWeight))])

(***************************************************************************)
(* The loop over one rule's paths in validateLbBackend.  acc holds the      *)
(* loop's locals: path (the first path seen, "" until set), upstreamName   *)
(* and the member list sl.SvcList.  Each failed check returns its error.   *)
(***************************************************************************)
RECURSIVE LbPaths(_, _, _, _)
LbPaths(ing, useWeight, ps, acc) ==
    IF ps = <<>> THEN [err |-> "none", acc |-> acc]
    ELSE
      LET p    == Head(ps)
          path == IF acc.path = <<>> THEN p.path ELSE acc.path
      IN  CASE path # p.path                  -> [err |-> NotSatisfiable]
            [] p.port = NoPort                -> [err |-> MissResources]
            [] useWeight /\ p.weight = NoWeight -> [err |-> InvalidContent]
            [] OTHER ->
                 LbPaths(ing, useWeight, Tail(ps),
                   [path |-> path,
                    name |-> IF acc.name = ""
                             THEN ing.name \o "-" \o ing.ns \o "-" \o p.svc
                             ELSE acc.name \o "-" \o p.svc,
                    sl   |-> Append(acc.sl, Member(p, useWeight))])

\* Mutation: the len(rs.HTTP.Paths) < 1 check is dropped.
RECURSIVE validateLbBackendNoLenCheck(_, _, _, _)
validateLbBackendNoLenCheck(ing, useWeight, rules, up) ==
    IF rules = <<>> THEN [err |-> "none", up |-> up]
    ELSE LET r == LbPaths(ing, useWeight, Head(rules),
                          [path |-> <<>>, name |-> "", sl |-> <<>>])
         IN  IF r.err # "none" THEN r
             ELSE validateLbBackendNoLenCheck(ing, useWeight, Tail(rules),
                    Append(up, [svcList |-> r.acc.sl, upstream |-> r.acc.name]))

\* Mutation: sl.Upstream = upstreamName is forgotten, leaving "".
RECURSIVE validateLbBackendNoUpstream(_, _, _, _)
validateLbBackendNoUpstream(ing, useWeight, rules, up) ==
    IF rules = <<>> THEN [err |-> "none", up |-> up]
    ELSE IF Head(rules) = <<>> THEN [err |-> NotSatisfiable]
    ELSE LET r == LbPaths(ing, useWeight, Head(rules),
                          [path |-> <<>>, name |-> "", sl |-> <<>>])
         IN  IF r.err # "none" THEN r
             ELSE validateLbBackendNoUpstream(ing, useWeight, Tail(rules),
                    Append(up, [svcList |-> r.acc.sl, upstream |-> ""]))

\* validateLbBackend: every rule needs a path; the upstream list config.Up
\* gets one [SvcList, Upstream] entry per rule, in rule order.
RECURSIVE validateLbBackend(_, _, _, _)
validateLbBackend(ing, useWeight, rules, up) ==
    IF rules = <<>> THEN [err |-> "none", up |-> up]
    ELSE IF Head(rules) = <<>> THEN [err |-> NotSatisfiable]
    ELSE LET r == LbPaths(ing, useWeight, Head(rules),
                          [path |-> <<>>, name |-> "", sl |-> <<>>])
         IN  IF r.err # "none" THEN r
             ELSE validateLbBackend(ing, useWeight, Tail(rules),
                    Append(up, [svcList |-> r.acc.sl, upstream |-> r.acc.name]))

(* Parse: use-lb, use-weight and lb-policy default to false/empty when     *)
(* absent or malformed; with use-lb the rules are validated.               *)
Parse(ing, ann) ==
    LET bw == [useLb |-> ann.useLb, useWeight |-> ann.useWeight, up |-> <<>>]
    IN  IF ~ann.useLb THEN [err |-> "none", bw |-> bw]
        ELSE LET v == validateLbBackend(ing, ann.useWeight, ing.rules, <<>>)
             IN  IF v.err # "none" THEN [err |-> v.err]
                 ELSE [err |-> "none", bw |-> [bw EXCEPT !.up = v.up]]

=============================================================================
