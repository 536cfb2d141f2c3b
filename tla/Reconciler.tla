----------------------------- MODULE Reconciler -----------------------------
(***************************************************************************)
(* The Ingress reconcile loop (internal/controller/ingress_controller.go)  *)
(* and what it leaves behind: one conf.d file per Ingress with rules, the  *)
(* single main nginx.conf, which renders the default backend of whichever  *)
(* Ingress wrote it last or the empty server clearConf puts back, the      *)
(* cert-manager Issuer, Certificate and Secret that ReconcileResource      *)
(* (pkg/resources/resources.go) asks for, and the self-signed TLS files    *)
(* generateCrdTlsFile copies out of that Secret.                           *)
(*                                                                         *)
(* A reload is one atomic step here; NginxReload models its inside.  The   *)
(* rendered text is abstracted to its owner and whether its servers carry  *)
(* a certificate.  Files are keyed as the code names them, by the string   *)
(* <name>-<namespace>; cert-manager objects by the Ingress's object key.   *)
(* Only Ingresses without spec.tls are modelled here (the self-signed      *)
(* path); the CA path reads Secrets the user provides.                     *)
(***************************************************************************)
EXTENDS Naturals, FiniteSets, Sequences

CONSTANTS
    Ingresses,     \* Ingress object keys
    Name,          \* Name[i], Namespace[i]: the key's two strings
    Namespace,
    Hosts,         \* host names the rules may declare
    Deleted,       \* the object is not in the cache: r.Get returns NotFound
    Empty,         \* nginx.conf renders the empty default server
    NoFile,        \* no such file; no such cert-manager object
    MaxEvents,     \* bound on user creates, updates and deletes
    MaxFailures,   \* bound on failed reconcile passes
    MaxGetErrors   \* bound on r.Get errors for an object that exists

(* What Reconcile reads of an Ingress: whether it has rules and the hosts   *)
(* they declare (GetHostName), whether it has a default backend, and       *)
(* whether checkController accepts it (ingress class or annotation naming  *)
(* this controller).                                                        *)
IngressSpec ==
    {s \in [rules : BOOLEAN, hosts : SUBSET Hosts, dflt : BOOLEAN, ours : BOOLEAN] :
        s.rules = (s.hosts # {})}

\* the dnsNames of a Certificate, and of the Secret issued for it
DnsNames == SUBSET Hosts \ {{}}

(* filepath.Join(config.ConfDir, n.ingress.Name+"-"+n.ingress.Namespace): *)
(* the conf.d file, and the prefix of the ssl files, of an Ingress.        *)
ConfFile(i) == Name[i] \o "-" \o Namespace[i]

Files == {ConfFile(i) : i \in Ingresses}

\* what a conf.d file renders: whose servers, and whether they carry a TLS pair
Rendering == [owner : Ingresses, tls : BOOLEAN]

VARIABLES
    obj,         \* obj[i]: the object in the cache, or Deleted
    queued,      \* queued[i]: the key is in the workqueue
    confd,       \* confd[f]: what conf.d/<f>.conf renders, or NoFile
    mainOwner,   \* whose default backend nginx.conf renders, or Empty
    issuer,      \* issuer[i]: the Issuer <name>-issuer exists
    cert,        \* cert[i]: dnsNames of the Certificate <name>-cert, or NoFile
    secret,      \* secret[i]: dnsNames of the issued Secret <name>-secret, or NoFile
    ssl,         \* ssl[f]: dnsNames of the pair in ssl/<f>-tls.*, or NoFile
    events,      \* user changes so far
    failures,    \* failed passes so far
    getErrors    \* r.Get errors so far

vars == <<obj, queued, confd, mainOwner, issuer, cert, secret, ssl,
          events, failures, getErrors>>

TypeOK ==
    /\ obj \in [Ingresses -> IngressSpec \cup {Deleted}]
    /\ queued \in [Ingresses -> BOOLEAN]
    /\ confd \in [Files -> Rendering \cup {NoFile}]
    /\ mainOwner \in Ingresses \cup {Empty}
    /\ issuer \in [Ingresses -> BOOLEAN]
    /\ cert \in [Ingresses -> DnsNames \cup {NoFile}]
    /\ secret \in [Ingresses -> DnsNames \cup {NoFile}]
    /\ ssl \in [Files -> DnsNames \cup {NoFile}]
    /\ events \in 0..MaxEvents
    /\ failures \in 0..MaxFailures
    /\ getErrors \in 0..MaxGetErrors

Live(i) == obj[i] # Deleted

\* the conf.d file of i exists and renders i's servers
Served(i) == confd[ConfFile(i)] # NoFile /\ confd[ConfFile(i)].owner = i

cmObjects == <<issuer, cert, secret>>

----------------------------------------------------------------------------
(* Users create, change or delete an Ingress; the watch queues its key.   *)

Apply(i) ==
    /\ events < MaxEvents
    /\ \E s \in IngressSpec \ {obj[i]} : obj' = [obj EXCEPT ![i] = s]
    /\ queued' = [queued EXCEPT ![i] = TRUE]
    /\ events' = events + 1
    /\ UNCHANGED <<confd, mainOwner, cmObjects, ssl, failures, getErrors>>

Delete(i) ==
    /\ events < MaxEvents
    /\ Live(i)
    /\ obj' = [obj EXCEPT ![i] = Deleted]
    /\ queued' = [queued EXCEPT ![i] = TRUE]
    /\ events' = events + 1
    /\ UNCHANGED <<confd, mainOwner, cmObjects, ssl, failures, getErrors>>

(* cert-manager's controller, outside this repository: a Certificate whose *)
(* Issuer exists is (re)issued into its Secret.  The controller watches    *)
(* only Ingresses, so issuing queues nothing.                              *)
Issue(i) ==
    /\ issuer[i]
    /\ cert[i] # NoFile
    /\ secret[i] # cert[i]
    /\ secret' = [secret EXCEPT ![i] = cert[i]]
    /\ UNCHANGED <<obj, queued, confd, mainOwner, issuer, cert, ssl,
                   events, failures, getErrors>>

----------------------------------------------------------------------------
\* Mutation: the os.Stat test is inverted (err == nil), so the conf.d file
\* is kept when it exists and nginx.conf is reset instead.
clearConfInverted(i) ==
    IF confd[ConfFile(i)] = NoFile
    THEN /\ confd' = [confd EXCEPT ![ConfFile(i)] = NoFile]
         /\ UNCHANGED mainOwner
    ELSE /\ mainOwner' = Empty
         /\ UNCHANGED confd

(***************************************************************************)
(* clearConf: when conf.d/<name>-<ns>.conf does not exist, re-render       *)
(* nginx.conf with an empty server through UpdateDefaultConf and reload;   *)
(* otherwise remove that file (nginx.CleanConf) and nothing else: the TLS  *)
(* files and the cert-manager objects stay.                                *)
(***************************************************************************)
clearConf(i) ==
    IF confd[ConfFile(i)] # NoFile
    THEN /\ confd' = [confd EXCEPT ![ConfFile(i)] = NoFile]
         /\ UNCHANGED mainOwner
    ELSE /\ mainOwner' = Empty
         /\ UNCHANGED confd

(* Reconcile: r.Get fails, so it logs "maybe has been deleted", calls     *)
(* clearConf and returns without requeue.  ReconcileGone is the NotFound  *)
(* of a deleted object; GetError is any other error for one that exists.  *)
Forget(i) ==
    /\ clearConf(i)
    /\ queued' = [queued EXCEPT ![i] = FALSE]
    /\ UNCHANGED <<obj, cmObjects, ssl, events, failures>>

ReconcileGone(i) ==
    /\ queued[i]
    /\ ~Live(i)
    /\ Forget(i)
    /\ UNCHANGED getErrors

GetError(i) ==
    /\ queued[i]
    /\ Live(i)
    /\ getErrors < MaxGetErrors
    /\ Forget(i)
    /\ getErrors' = getErrors + 1

(* checkController rejects the object: RequeueAfter 30 s with no other     *)
(* effect.  The step changes no state and is left out of Next.             *)

(***************************************************************************)
(* ReconcileResource, for an Ingress with rules and without spec.tls:      *)
(* reconcileIssuer creates <name>-issuer when it is missing; reconcileCert *)
(* creates <name>-cert with the rules' hosts when it is missing, updates   *)
(* its dnsNames when they differ from the hosts, and leaves it alone when  *)
(* they are equal.  Only after a create or an update does it GetSecret     *)
(* <name>-secret, and a missing Secret is an error.                        *)
(***************************************************************************)
(* reconcileCert: Create with the hosts when Get returns NotFound;       *)
(* otherwise compare the sorted dnsNames with the sorted hosts and Update  *)
(* when they differ.  The return at resources.go:108 for a Certificate     *)
(* without dnsNames is not reachable here: the only Certificate of that    *)
(* name is the one this code created, with the hosts of at least one rule. *)
reconcileCert(i) ==
    [cert EXCEPT ![i] = CASE @ = NoFile         -> obj[i].hosts
                          [] @ # obj[i].hosts  -> obj[i].hosts
                          [] OTHER             -> @]

ResourceNeeded(i) == obj[i].rules

reconcileIssuer(i) == [issuer EXCEPT ![i] = TRUE]

\* ReconcileResource returns nil
ResourceOk(i) ==
    \/ ~ResourceNeeded(i)
    \/ cert[i] = obj[i].hosts
    \/ secret[i] # NoFile

ReconcileResource(i) ==
    IF ResourceNeeded(i)
    THEN /\ issuer' = reconcileIssuer(i)
         /\ cert' = reconcileCert(i)
    ELSE UNCHANGED <<issuer, cert>>

(* generateTlsFile -> generateCrdTlsFile inside getBackendConfigure: when  *)
(* GetTlsData finds <name>-secret its data is written to ssl/<name>-<ns>-  *)
(* tls.crt and tls.key and every rule's server carries that pair; when it  *)
(* does not, the error is only logged and the servers carry none.          *)
TlsFound(i) == secret[i] # NoFile

generateCrdTlsFile(i) ==
    IF TlsFound(i) THEN [ssl EXCEPT ![ConfFile(i)] = secret[i]] ELSE ssl

\* generateBackendTemplate: the conf.d file of i, with or without TLS
generateBackendTemplate(i) ==
    [confd EXCEPT ![ConfFile(i)] = [owner |-> i, tls |-> TlsFound(i)]]

(* The rules part of GenerateConfigure has run (and committed) when the    *)
(* Ingress has rules; an Ingress without rules leaves its old file.        *)
RulesDone(i) ==
    IF obj[i].rules
    THEN /\ confd' = generateBackendTemplate(i)
         /\ ssl' = generateCrdTlsFile(i)
    ELSE UNCHANGED <<confd, ssl>>

\* Mutation: a failed GenerateConfigure returns ctrl.Result{} with no
\* requeue, as the Get-error branch does.
ReconcileApplyNoRequeue(i) ==
    /\ queued[i]
    /\ Live(i)
    /\ obj[i].ours
    /\ queued' = [queued EXCEPT ![i] = FALSE]
    /\ ReconcileResource(i)
    /\ IF ResourceOk(i)
       THEN /\ RulesDone(i)
            /\ mainOwner' = IF obj[i].dflt THEN i ELSE mainOwner
       ELSE UNCHANGED <<confd, ssl, mainOwner>>
    /\ UNCHANGED <<obj, secret, events, failures, getErrors>>

(***************************************************************************)
(* Reconcile, object found and claimed: checkService for every backend,   *)
(* ReconcileResource, Extract, then GenerateConfigure, which renders and  *)
(* reloads the conf.d file when there are rules and then nginx.conf when  *)
(* there is a default backend.  Every error requeues.  Success; a missing *)
(* Secret after a Certificate was created or updated; or one of the other *)
(* failures, bounded by MaxFailures: before ReconcileResource             *)
(* (checkService), in it (an API error after the Issuer), after it       *)
(* (Extract), in getBackendConfigure after generateTlsFile wrote the pair *)
(* (a Service or port lookup, rendering, the conf.d reload), or after the *)
(* conf.d file was committed (the default backend).                       *)
(***************************************************************************)
ReconcileApply(i) ==
    /\ queued[i]
    /\ Live(i)
    /\ obj[i].ours
    /\ \/ /\ ReconcileResource(i)
          /\ ResourceOk(i)
          /\ RulesDone(i)
          /\ mainOwner' = IF obj[i].dflt THEN i ELSE mainOwner
          /\ queued' = [queued EXCEPT ![i] = FALSE]
          /\ UNCHANGED failures
       \/ /\ ReconcileResource(i)
          /\ ~ResourceOk(i)
          /\ UNCHANGED <<confd, ssl, mainOwner, queued, failures>>
       \/ /\ failures < MaxFailures
          /\ \/ UNCHANGED <<issuer, cert, confd, ssl>>
             \/ /\ issuer' = [issuer EXCEPT ![i] = @ \/ ResourceNeeded(i)]
                /\ UNCHANGED <<cert, confd, ssl>>
             \/ ReconcileResource(i) /\ ResourceOk(i) /\ UNCHANGED <<confd, ssl>>
             \/ /\ ReconcileResource(i) /\ ResourceOk(i) /\ obj[i].rules
                /\ ssl' = generateCrdTlsFile(i)
                /\ UNCHANGED confd
             \/ ReconcileResource(i) /\ ResourceOk(i) /\ RulesDone(i)
          /\ UNCHANGED <<mainOwner, queued>>
          /\ failures' = failures + 1
    /\ UNCHANGED <<obj, secret, events, getErrors>>

----------------------------------------------------------------------------
Init ==
    /\ obj = [i \in Ingresses |-> Deleted]
    /\ queued = [i \in Ingresses |-> FALSE]
    /\ confd = [f \in Files |-> NoFile]
    /\ mainOwner = Empty
    /\ issuer = [i \in Ingresses |-> FALSE]
    /\ cert = [i \in Ingresses |-> NoFile]
    /\ secret = [i \in Ingresses |-> NoFile]
    /\ ssl = [f \in Files |-> NoFile]
    /\ events = 0
    /\ failures = 0
    /\ getErrors = 0

Next ==
    \E i \in Ingresses :
        \/ Apply(i) \/ Delete(i) \/ Issue(i)
        \/ ReconcileGone(i) \/ GetError(i) \/ ReconcileApply(i)

(* The workqueue hands every queued key to the worker again, after the    *)
(* requeue delay when a pass failed: weak fairness per key on the passes  *)
(* the cache state determines.  cert-manager eventually issues every      *)
(* Certificate it is given.  Users and API errors owe nothing.            *)
Fairness ==
    \A i \in Ingresses :
        /\ WF_vars(ReconcileGone(i) \/ ReconcileApply(i))
        /\ WF_vars(Issue(i))

Spec == Init /\ [][Next]_vars /\ Fairness

(***************************************************************************)
(* Properties                                                              *)
(***************************************************************************)

(* No pass is owed: every queued key is one checkController keeps         *)
(* rejecting (RequeueAfter 30 s without effect).                          *)
Settled == \A i \in Ingresses : queued[i] => Live(i) /\ ~obj[i].ours

\* Deleting an Ingress removes its conf.d file: once the queue has drained,
\* no conf.d file renders an Ingress that is gone, whatever order deletes,
\* re-creates, failed passes and API errors came in.
ConfDRemovedOnDelete ==
    Settled => \A f \in Files : confd[f] # NoFile => Live(confd[f].owner)

\* clearConf of one Ingress never takes away the default backend another
\* live, claimed Ingress declares: once the queue has drained, nginx.conf
\* renders some default backend whenever one is declared.
DefaultBackendKept ==
    Settled =>
        ((\E i \in Ingresses : Live(i) /\ obj[i].ours /\ obj[i].dflt)
            => mainOwner # Empty)

\* Every live, claimed Ingress with rules is eventually served from its
\* own conf.d file for good, through failed passes and their requeues.
ConfDServedEventually ==
    <>[](\A i \in Ingresses : Live(i) /\ obj[i].ours /\ obj[i].rules => Served(i))

\* Spec 4.4: every live, claimed Ingress with rules is eventually served
\* over TLS for good, from ssl files whose certificate covers its hosts,
\* once cert-manager has issued its Secret.
TlsServedEventually ==
    <>[](\A i \in Ingresses :
            Live(i) /\ obj[i].ours /\ obj[i].rules =>
                /\ Served(i)
                /\ confd[ConfFile(i)].tls
                /\ ssl[ConfFile(i)] # NoFile
                /\ obj[i].hosts \subseteq ssl[ConfFile(i)])

=============================================================================
