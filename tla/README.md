# TLA+ models of ingress-nginx-kubebuilder

This directory holds TLA+ specifications of the controller in `src/`. They
cover how it turns Ingress objects into nginx configuration files and pushes
those files into a running nginx. TLC checks every module. `PROJECT.json`
lists the components, runs, mutants, source map, findings and hazards.

## The system

| Part | Source | What it does |
|---|---|---|
| Reconciler | `internal/controller/ingress_controller.go`, `default_nginx.go` | controller-runtime calls `Reconcile` for each queued Ingress key. A failing `r.Get` calls `clearConf`. An Ingress not claimed by `checkController` is requeued after 30 s. Otherwise it checks services, reconciles cert-manager objects, extracts annotations and calls `GenerateConfigure`. Errors requeue after 15 or 30 s. |
| Config writer | `internal/controller/nginx.go` | `GenerateConfigure` renders `conf.d/<name>-<ns>` when the Ingress has rules, and `/etc/nginx/nginx` when it has a default backend. It writes `<name>-test.conf` (and TLS files into `/etc/nginx/ssl`), then calls `nginx.Reload`. |
| Reload Coordinator | `internal/nginx/nginx.go` | `reload` stages, compares SHA1, backs up to `.tmp`, overwrites production, runs `nginx -t`, rolls back or commits, sends SIGHUP, and cleans up in a `defer`. |
| File Watcher | `pkg/utils/file/file_watcher.go`, `nginx.go` | Remove events in `conf.d`, and Write/Create events in `ssl`, run `reloadIfWatchFileCurd` (`nginx -t`, then SIGHUP) on the watcher goroutine. |
| Process lifecycle | `nginx.go` `Start` | Runs `nginx -c nginx.conf`. A goroutine polls for the process for 10 s and then starts the watchers, or gives up and starts none. |
| Weight parser | `internal/annotations/weight/main.go` | With `use-lb`, `validateLbBackend` checks every rule (non-empty, one path, ports and weights resolved) and registers one upstream group per rule, named `<name>-<ns>-<svc1>-<svc2>...`. |
| Backend synthesis | `controller/nginx.go` `getBackendConfigure`, `getDefaultBackendConfigure`, `store/ingressInfo.go` | Builds one Server per rule and one Backend per path (only `Paths[0]` under `use-lb`, carrying the upstream name `GetUpstreamName` recomputes), after `checkIngressContent`, `GetService` and `GetSvcPort`, and with `formatPath`'s `~ ^` prefix. For a default backend it builds one server `default` with one backend at `/`. |
| Annotation Extractor and parsers | `internal/annotations/annotations.go`, `parser/`, `proxy`, `rewrite`, `redirect`, `sslstapling`, `allowcos`, `ipallowlist`, `ipdenylist` | `Extract` loops over the map of eight parsers in Go's random order, runs each one's `Validate` (`CheckAnnotations`) and `Parse`, returns on the first error of an aborting kind, and merges the fragments into one record. Each parser reads its keys with `GetStringAnnotation`/`GetBoolAnnotations` (a missing, empty or malformed value yields the zero value) and applies the checks of `validators.go`. |
| Templates | `pkg/utils/template_nginx` | Renders the configuration text. Not modelled. |
| cert-manager resources | `pkg/resources/resources.go`, `store/ingressInfo.go` `GetSecret`/`GetTlsData` | For an Ingress with rules, `ReconcileResource` creates the Issuer `<name>-issuer` once. It creates the Certificate `<name>-cert` for the rules' hosts, or updates its dnsNames when they differ, and calls `GetSecret` only right after a create or update. `generateCrdTlsFile` then copies the Secret's pair to `ssl/<name>-<ns>-tls.*`. |
| API types, webhook | `api/v1`, `internal/webhook` | Generated code and admission checks. Not modelled. |

The parts interact through files and through one shared resource, the
configuration tree that `nginx -t` and SIGHUP read. That tree is
`nginx.conf` plus every file `conf.d/*.conf` matches, and that glob also
matches the staged `<name>-test.conf` files.

Three actors touch the tree:
- the reconcile worker (controller-runtime runs a single worker);
- the two watcher goroutines, which hold no lock;
- nginx itself, which loads the tree at start and on each SIGHUP.

The mutex in `NginxController` (`controller/nginx.go:49`) is created per
controller instance, so it excludes nothing.

## Modules

### `NginxReload.tla`: reload protocol, watchers and nginx start-up

- **Slots.** A configuration slot is one production file: `MainConf` (nginx.conf) or a member of `ConfSlots` (a conf.d file).
- **Content.** Contents are model values: `GoodConf` is what `nginx -t` accepts and `BadConf` is what it rejects. `Absent` means there is no file. Equal SHA1 is equality of values.
- **State.**
  - `prod`, `test` and `bak` are the three files of each slot.
  - `want` is what the Ingress currently renders to.
  - `dirty` is the workqueue, and `requeue` whether the pass in progress returns an error (and so requeues its key).
  - `rpc` and `rslot` are the pass in progress; `isFirstReload` is `reload`'s local.
  - `deletes` counts user deletions, bounded by `MaxDeletes`.
  - `nginx`, `loaded` and `rejected` are the process, the configuration it serves, and whether it was ever signalled with a tree it rejects.
  - `poll` is `Start`'s goroutine.
  - `pending` and `wpc` are the two watchers.
- **Actions.** There is one action per step of `reload`, and each failure exit is an action of its own:
  - `reloadUnchanged` (short-circuit at line 81)
  - `backupConf`, and `backupConfFails` (either copy fails, lines 21/26, with no rollback)
  - `reloadFirst`
  - `testPasses`
  - `rolloutConf`
  - `commitConf` (a no-op, because backupConf already removed the test file), and `commitConfFails`: on a first reload, `generateConf` (lines 40-50) fails after a short write, cannot create production, or writes it and fails its Stat/SHA1 check
  - `signalSent`, and `signalFails` (no pid file)
  - `testSpurious`: `nginx -t` fails without an exit status (binary missing, start failure) and `Execute` (`cmd.go:34-39`) reports success
  - `rolloutConfFails`: the rollback copy at line 96 fails and the pass returns with a rejected or half-written file in production

  The deferred `CleanConf` is part of every action that ends a pass.
- **Reconcile entry points.**
  - `UpdateIngress` and `DeleteIngress` are the user; a deletion sets the rendering to `Absent`.
  - `generateConfigure` stages `<name>-test.conf` and starts a pass; `generateConfigureFails` is a failed or short write of it (`controller/nginx.go:75-80`), which leaves a bad or the old file in conf.d and requeues.
  - `clearConf` (`ingress_controller.go:218-236`) is the NotFound branch: it removes the conf.d file and reloads nothing, or, when there is none, stages the empty server (`default_nginx.go`) into nginx.conf and starts a pass that does not requeue.
- **Watchers and start-up.**
  - `watchTest` and `watchSignal` are `reloadIfWatchFileCurd`. `Notify` is the event filter of `watch`, and only a registered watcher sees events.
  - `startExec`, `startLoad` and `startPid` are nginx coming up. `dirWatcher` and `startTimeout` are the two exits of `Start`'s poll.
- **Faults.** Failed writes of the test file, failed copies (including the first reload's), and spurious `nginx -t` verdicts, in passes and in the watcher, share the bound `MaxIOFaults`.
- **Start-up.** nginx rejecting its tree at start makes `Start` exit the controller with `klog.Fatalln` (nginx.go:186-187). The model only disables `startLoad` in that state, so nginx stays at `exec`; no property is about a controller that has exited.
- **Refinement.** `ReloadAbstract.tla` states what the coordinator promises (spec 4.6 and 7): production changes only by an atomic commit of one slot, and only to a tree that passes `nginx -t`, or by the removal of a deleted Ingress's file; renderings change at any time. `NginxReload` maps onto it with `committedProd`, which is production with the slot of an in-flight pass (between `backupConf` and the verdict) read from its `.tmp` backup, because the overwrite is undone on rejection. `ReloadRefinement == Abstract!Spec` is checked in `reload_safety`.
- **Assumptions.**
  - An invalid tree given a SIGHUP keeps the old configuration.
  - Files in `/etc/nginx` (the main slot's test and .tmp files) are neither included nor watched.
  - Events in one directory coalesce into one pending flag, because the callback re-reads the whole tree.

### `Reconciler.tla`: Reconcile, clearConf, cert-manager objects and the shared nginx.conf

- **State.**
  - `obj[i]` is the cached object, or `Deleted`. It records `rules`, the `hosts` they declare (`GetHostName`), `dflt` (default backend) and `ours` (checkController accepts it).
  - `queued` is the workqueue.
  - `confd[f]` is what `conf.d/<f>.conf` renders: its owner and whether its servers carry TLS, or `NoFile`. Files are keyed as the code keys them, by the string `ConfFile(i) == Name[i] \o "-" \o Namespace[i]`.
  - `mainOwner` is whose default backend nginx.conf renders, or `Empty` (the server `clearConf` writes).
  - cert-manager objects: `issuer[i]`, `cert[i]` (the Certificate's dnsNames) and `secret[i]` (the dnsNames of the issued Secret).
  - `ssl[f]` is the pair in `ssl/<f>-tls.*`.
- **Actions.**
  - Users: `Apply`, `Delete`.
  - cert-manager: `Issue(i)` issues the Secret for the current Certificate. It is external and queues nothing, because the controller watches only Ingresses (`SetupWithManager`).
  - `ReconcileGone`: NotFound, leading to `clearConf`.
  - `GetError`: any other `r.Get` error, which also leads to `clearConf`.
  - `ReconcileApply` has three outcomes:
    - Success: `ReconcileResource`, then `generateBackendTemplate` with `generateCrdTlsFile`. A missing Secret at that point is only logged, so the servers are rendered without TLS.
    - A missing Secret right after the Certificate is created or updated: the pass returns an error and requeues.
    - A bounded API or reload failure: before anything, after the Issuer only, after the cert-manager objects, or after the conf.d file was committed. It requeues.
  - The checkController rejection changes nothing and is not an action.
- **Abstraction.**
  - A reload is atomic here; `NginxReload` models its inside.
  - A Secret is the set of hosts its certificate covers. `DecodeBase64` copies bytes, so it is the identity on that set.
  - Only the self-signed path (no `spec.tls`) is modelled.

### `Annotations.tla`: the parsers and validators

- **Data.** An annotation map is a function from the 17 keys the parsers read to a value or `Missing`. String values are sequences of characters; boolean values are the strings `strconv.ParseBool` is given. An empty value reads like a missing one in every reader.
- **Validators.** The regular expressions of `validators.go` are predicates over the character sequence, written from the pattern: `IsRegexPatternRegex`, `IsTargetPathRegex`, `PassIsIp` (whose dots are unescaped, so any separator matches), and `IsValidHost` (unanchored, with the byte range `0`..`z`).
- **Parsers.** `ProxyParse` (with `check`'s five tests in order, then `formatProxyPath`), `RewriteParse`, `RedirectParse`, `SSLStaplingParse`, `AllowCosParse`, `WeightParse` (the weight module's `Parse` on the booleans read), and `AllowListParse`/`DenyListParse` through `SourceRangeLoop`. That loop is the Go loop over `strings.Split(val, ",")`, with `TrimSpace`, skipping empty fields, failing on the first non-IP, and inserting into a set that `List()` returns sorted (`SetToSortSeq` with bytewise `LexLess`).
- **Validate.** `CheckAnnotations` fails only for a present key whose `Doc` is empty. Every key of the code has a `Doc`, so `Undocumented` is empty and Validate never fails. The spec's "unknown-but-prefixed keys are reported" (4.1) does not happen in the code.
- **Triage.** `ExtractAborts` is the set of kinds on which `Extract` returns. Any other error would be skipped.

### `Weight.tla` and `Synthesis.tla`: one pass from annotations to servers

- **Data.** A path entry is a record of its path (a sequence of characters, `<<>>` for the empty path), service name, weight (a number or `NoWeight`) and resolved port (or `NoPort`). An Ingress is a bounded sequence of rules, each a bounded sequence of path entries.
- **Operators.** Each Go loop is a RECURSIVE operator with the loop's locals as arguments: `LbPaths` and `validateLbBackend` (the two loops of `validateLbBackend`), `Parse`, `BackendLoop` and `RuleLoop` (the two loops of `getBackendConfigure`, keeping the `make(n)` + `append(x[:k], v)` slice handling), `getUpstreamBackend` (a `FoldLeft`), `GetUpstreamName`, `checkIngressContent` and `formatPath`.
- **Resolver.** `svcs` is the namespace's Services: each name maps to its set of ports (number and name) or to `NotFound`. A path or default backend refers to its port by a record of number and name, as the API does. `GetService` and `GetSvcPort` translate `ingressInfo.go`: a port matches when its number or its name equals the reference's, and the result is the reference's own number. `RIng` is the Ingress with every path's lookup results, which the weight parser and `getBackendConfigure` read.
- **State machine.** `Init` picks an Ingress, an annotation map and a Service state. `Extract` runs every parser. When some abort, it returns the error of any one of them, since Go's map order can put any parser first. Otherwise it stores every fragment. `BackendConfigure` is `GenerateConfigure` calling `getBackendConfigure` with the Rewrite and Weight fragments, when `Extract` accepted an Ingress with rules. `DefaultConfigure` is its second branch, `getDefaultBackendConfigure`, entered when the Ingress has a default backend and the rules' branch, if any, succeeded. The properties relate the result to the input.
- **Abstractions.** A `GetService` error other than NotFound is the same outcome as NotFound. The TLS map (`generateTlsFile`) is left out; its error is ignored by `getBackendConfigure`. `lb-policy` is read by the weight parser but affects no check, so it is not modelled.

`NginxReload` and `Reconciler` share the slot/owner picture of the tree. Composing them,
with `Reconciler`'s steps driving `NginxReload`'s slots, is in the plan.

## Runs

Pass runs check the invariants and properties listed for them. Each violation
run checks one property, and TLC finds a counterexample for it.

Every cfg says `CHECK_DEADLOCK FALSE`, because the controller really idles
once no Ingress changes are pending.

| Run | Expect | Checks | Shows |
|---|---|---|---|
| reload_safety | pass | ReloadRefinement | Start racing passes, watchers interleaving, 3 updates, 1 deletion, no I/O fault: the protocol implements `ReloadAbstract`, so production as of the last commit changes only by an atomic commit of a tree `nginx -t` accepts. |
| reload_liveness | pass | EventuallyServed | With nginx up, every valid rendering is eventually loaded through rollbacks, requeues and short-circuits. |
| write_failure_heals | pass | StagingCleanedEventually | With one I/O fault (a failed write of the test file, a failed copy, a failed first-reload commit, a failed rollback or a spurious `nginx -t` pass) and no deletion: a partial `<name>-test.conf` that `generateConf` leaves in conf.d before `Reload` is eventually removed for good by the requeued pass's deferred `CleanConf`. |
| deleted_still_served | violation | ConfDirHeals | With one deletion: `clearConf` removes the file and leaves the reload to the watcher. The watcher handles the Remove event while another pass has nginx.conf staged with an invalid rendering, so the SIGHUP is rejected; the pass rolls back, the fixed rendering's retry short-circuits on equal SHA1, and nginx serves the deleted Ingress for good (ingress_controller.go:235). |
| boot_signal_lost | violation | EventuallyServed | A pass commits nginx.conf before the pid file exists, so the SIGHUP fails, and its retry short-circuits on equal SHA1. nginx.conf is in neither watched directory, so the update is lost whether the 10 s poll gave up or started the watchers (TLC's trace may show either). |
| reconcile_safety | pass | ConfDRemovedOnDelete | Through host changes, failures (including one in `getBackendConfigure` after the TLS pair was written), missing Secrets, re-creation and Get errors, whenever the workqueue is empty: no conf.d file renders a deleted Ingress. |
| reconcile_liveness | pass | ConfDServedEventually | Failed passes, including those that find a new Certificate's Secret not yet issued, are retried until every claimed Ingress with rules is served from its own file. |
| conf_name_collision | violation | ConfDServedEventually | `a-b`/`c` and `a`/`b-c` both render `conf.d/a-b-c.conf`. The Ingress reconciled first is overwritten and never served, against spec 4.4's collision-free naming. |
| tls_never_served | violation | TlsServedEventually | The first pass creates the Certificate and requeues on the missing Secret. The retry finds equal dnsNames, skips `GetSecret`, renders without TLS and succeeds. cert-manager issues afterwards, and nothing in the model reconciles the Ingress again. In the cluster the pair is missing until an edit of the Ingress or controller-runtime's periodic resync (10 h by default), which the model leaves out. |
| default_backend_reset | violation | DefaultBackendKept | Deleting an Ingress without a conf.d file empties nginx.conf while another Ingress declares the default backend. |
| synthesis_pass | pass | BackendsMirrorRules, UpstreamResolved, NoEmptyLbRule, RegexConsistent, ExtractOutcome, ListNormalised, ProxyContract, LbBackendsResolve | From raw annotation maps: `Extract` accepts exactly when no parser fails, in any visiting order, and then holds every fragment; allow/deny lists are the sorted set of their trimmed tokens (spec 8); accepted proxy fragments meet spec 4.1. Over every Ingress of up to 2 rules of up to 2 paths and every rewrite/weight annotation combination: servers and backends mirror rules and paths with no nil slot; every upstream name is found; no empty rule reaches `Paths[0]`; the `~ ^` prefix appears exactly with a regex annotation and a regex-looking path. Over a missing Service, an unnamed port, and port references by number, by an unexposed number and by name: a `use-lb` rule the weight parser accepts never fails `GetService`/`GetSvcPort` in `getBackendConfigure`. |
| svc_port_by_name | violation | BackendPortExposed | A default backend that names its port `http` (number unset) is built with port 0: `GetSvcPort` matches by name but returns the reference's number (ingressInfo.go:92). |

Three counterexamples found while modelling `NginxReload` have no run in the
current set. They are kept as hazard notes in `PROJECT.json`:
- Under `write_failure_heals`' bounds, `ConfDirHeals` is violated through `commitConfFails`. A first reload writes production and fails its check, so the retry short-circuits. The conf.d watcher's one `nginx -t` then lands while another pass has an invalid nginx.conf staged. This is the one-shot watcher defect that `deleted_still_served` reports.
- With `MaxIOFaults = 1`, a short write at nginx.go:26 leaves a truncated production file, with no rollback. This violates `ProdValidAtRest`.
- With `MaxDeletes = 1` added to `write_failure_heals`, `StagingCleanedEventually` is violated. The Ingress is deleted before the retry of a failed test-file write. `clearConf` removes only `<name>-<ns>.conf`, so the partial `-test.conf` stays in conf.d for good.
- With `MaxUpdates = 2` and no fault, the watcher's `nginx -t` passes, and then a first-reload pass stages a bad `-test.conf` in conf.d before the watcher signals. This violates `NoRejectedReload`: the unlocked watcher breaks the reload lock of spec section 5.

Each module keeps a `TypeOK`, but no run checks it. A plausible bug in this code changes behaviour, not the types of the abstracted state, so its only mutants would lift the model's own bounds.

Each property of a passing run has a mutant: a plausible bug in the mapped
code under which TLC finds the property violated.

| Mutant | Property it breaks |
|---|---|
| the commit dropped | EventuallyServed |
| a failed write of the test file not requeued | StagingCleanedEventually |
| clearConf's Stat test inverted | ConfDRemovedOnDelete |
| a failed pass not requeued | ConfDServedEventually |
| `append(backend, b)` instead of `append(backend[:bk], b)` | BackendsMirrorRules |
| `sl.Upstream` never set | UpstreamResolved |
| the empty-rule check of `validateLbBackend` dropped | NoEmptyLbRule |
| the rewrite-target check of `checkIngressContent` dropped | RegexConsistent |
| the port check of `validateLbBackend` dropped | LbBackendsResolve |
| `testPasses` committing whatever `nginx -t` says | ReloadRefinement |
| the triage of `Extract` forgetting `InvalidContent` | ExtractOutcome |
| the list loop without `TrimSpace` | ListNormalised |
| the proxy check on an IP host with SSL dropped | ProxyContract |

## Bounds

The reload runs use:
- `MainConf` plus one conf.d slot (`ingA`);
- two valid contents and one invalid one;
- 2–3 Ingress updates, 0–1 deletions (`MaxDeletes`) and 0–1 I/O faults (`MaxIOFaults`).

These bounds are enough for the interesting cases:
- Two valid values give the SHA1 short-circuit and a real change.
- One invalid value gives rollbacks and the watcher race.
- Two slots give one watched and one unwatched directory.
- Three updates allow a change during a pending retry; `deleted_still_served` needs all three (a bad rendering of nginx.conf, its fix, and the deleted Ingress's first rendering) before the deletion.
- One deletion gives both branches of `clearConf`: it removes the conf.d file when it exists and resets nginx.conf when it does not.

The reconcile runs use two Ingresses and two hosts. Two Ingresses are what
ownership of the shared nginx.conf and a file-name collision need. Two hosts
give a host change that makes the Certificate stale. The runs allow 1–4 user
events, at most one failed pass and at most one Get error. The keys are not
symmetric: their file names are strings built from them. `MCName` gives two
Ingresses the same name in different namespaces, and `CollidingName` gives
the pair that collide.

The synthesis runs use paths `""`, `/a` and `/(a)` (empty, plain, regex-looking), two services, weights absent and 0 (the `down` marker), rewrite targets `""` and `/$1`, and up to 2 rules of up to 2 paths. That gives heterogeneous and homogeneous rules, the empty-path sentinel and every branch of `checkIngressContent`. The pass run resolves every port and uses no weight 1, which keeps it near a million states. A third family of inputs, under `use-lb`, puts one path and a default backend on `s1` with every port reference (`80` by number, the unexposed `81`, and `http` by name) and lets `s1` be missing, expose `80/http`, or expose an unnamed `80`; that covers each branch of `GetService`, `GetSvcPort` and `getDefaultBackendConfigure`. The pass run does not check `BackendPortExposed`; `svc_port_by_name` does, with one rule of one path.

The annotation maps come in families (`MCSynthesis.tla`):
- the 16 rewrite/weight maps, tried on every Ingress;
- the proxy keys (plain and regex paths, valid and invalid targets, an IP and a DNS host, SSL on, and a malformed boolean);
- redirect, SSL stapling and cos (valid and invalid hosts, `T`/`0`/`1`/`t`/`on`);
- both lists, over spec 8's example `1.1.1.1, 2.2.2.2,1.1.1.1`, a leading blank with an empty field, an out-of-order pair and a bad token;
- one failing value per parser, so that several parsers reject at once and `Extract`'s choice of error matters.

The annotation families are tried on one-path Ingresses with and without a weight.

Every run finishes within a minute.

## Fairness

- **Workqueue.** controller-runtime's workqueue eventually hands each queued key to the single worker, which is intermittently busy with other keys. `NginxReload` therefore uses strong fairness per slot on `generateConfigure`; `Reconciler` uses weak fairness per key.
- **cert-manager.** `Issue` gets weak fairness: cert-manager keeps issuing a requested Certificate. The TLS violation needs only that.
- **Pass steps, watchers and nginx start-up.** These get weak fairness. A started pass runs to completion, each watcher goroutine handles its events, and nginx finishes starting.
- **Synthesis.** No fairness: its properties are invariants.
- **No fairness.** Users, the 10 s timer, write failures and API errors are under no obligation.

## Not modelled, and the plan

Later work, in order:

1. **CA files.** `generateCaTlsFile` (`controller/nginx.go:365`) names CA files by namespace only and never resets its `ssl` record per Secret. It would join `Reconciler` with the `spec.tls` Secrets the user provides.
2. **Composition.** `Reconciler` steps drive `NginxReload` slots, with several conf.d slots. `SHA1` returning `""` on read errors (`md5.go:16`) becomes a bounded nondeterministic outcome.
3. **PassIsIp.** Its unescaped dots accept `1-1-1-1` as an IP. This disagrees with the spec's "dotted-quad shape check" and needs a run of its own.
4. **Weight homogeneity.** `LbPathsHomogeneous` (spec 4.2(b)) is violated by a `use-lb` rule whose first path is empty: `""` is also the loop's "no path yet" sentinel (weight/main.go:108). It is kept in `Synthesis` but has no run in the current set.

Out of reach, and not planned:
- Template execution. It is text processing, so its result enters only as a model value.
- The Kubernetes client calls other than cert-manager's. They enter only as "a pass fails and requeues".
- The admission webhook (`api/v1/ingress_webhook.go`). Spec section 1 puts admission scaffolding out of scope, and no code in this repository calls `SetupWebhookWithManager`, so nothing here says its checks stand between a user and the controller. Gating `Synthesis` on it would assume a deployment the source does not show. On its own it is a single loop: it compares each path only with the one before it (`ingress_webhook.go:130`), starting from `""`. So it misses duplicates that are not adjacent, rejects an empty first path, returns early for `use-lb` (`:126`) without looking at later rules, and reads `proxy-host` as both a host flag and a path. A unit test reaches each of these.
- The generated API types (`api/v1/ingress_types.go`, deepcopy code).
- The `mergo.MapWithOverwrite` error (`annotations.go:122`). The fragment types match the record's fields one to one, so the merge cannot fail, and `Extract` builds the record directly.
- `ipdenylist` calls `parser.IsIp`, which `parser` does not define, so the package does not compile as it stands. `DenyListParse` uses `PassIsIp`, the check the spec gives both lists.
