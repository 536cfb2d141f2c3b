---------------------------- MODULE NginxReload ----------------------------
(***************************************************************************)
(* The render-and-reload protocol of the controller (internal/nginx/       *)
(* nginx.go, internal/controller/nginx.go) together with the nginx         *)
(* process it drives and the two fsnotify watchers that re-run             *)
(* "nginx -t" + SIGHUP on out-of-band changes (pkg/utils/file).            *)
(*                                                                         *)
(* A configuration slot is one production file: the main nginx.conf       *)
(* (default backend, /etc/nginx/nginx) or one <name>-<ns>.conf in conf.d.  *)
(* Each slot has a production, a "-test.conf" and a ".tmp" file.  The      *)
(* rendered text is abstracted to a model value that is either accepted   *)
(* (GoodConf) or rejected (BadConf) by nginx's syntax check.              *)
(***************************************************************************)
EXTENDS Naturals, FiniteSets

CONSTANTS
    MainConf,          \* the slot of /etc/nginx/nginx.conf
    ConfSlots,         \* slots of conf.d/<name>-<namespace>.conf
    GoodConf,          \* rendered texts nginx -t accepts
    BadConf,           \* rendered texts nginx -t rejects
    Absent,            \* no such file
    MaxUpdates,        \* bound on Ingress changes made by users
    MaxIOFaults,       \* bound on I/O faults: failed file copies, and runs
                       \* of nginx -t that fail without an exit status
    MaxDeletes,        \* bound on Ingress deletions
    BootRace           \* TRUE: reconciles may run while nginx is starting

Slots == {MainConf} \cup ConfSlots
Conf  == GoodConf \cup BadConf
File  == Conf \cup {Absent}
Dirs  == {"conf", "ssl"}   \* the two watched directories: ConfDir, SslPath

VARIABLES
    prod,           \* prod[c]: content of <name>.conf
    test,           \* test[c]: content of <name>-test.conf
    bak,            \* bak[c]:  content of <name>.tmp
    want,           \* want[c]: what the Ingress currently renders to
    dirty,          \* dirty[c]: the slot is queued in the workqueue
    updates,        \* number of Ingress changes so far
    failures,       \* number of I/O faults so far
    rpc,            \* step of the (single) reconcile worker
    rslot,          \* slot of the pass in progress
    isFirstReload,  \* reload's isFirstReload local
    nginx,          \* "none" | "exec" | "loaded" | "running" (pid file written)
    loaded,         \* the production files nginx currently serves
    rejected,       \* nginx was sent SIGHUP while the tree was invalid
    poll,           \* Start's goroutine: "polling" | "watching" | "gaveup"
    pending,        \* pending[d]: an unhandled fsnotify event for dir d
    wpc,            \* wpc[d]: "idle" | "checked" (nginx -t passed)
    requeue,        \* the pass's error goes back to the workqueue
    deletes         \* number of Ingress deletions so far

vars == <<prod, test, bak, want, dirty, updates, failures, rpc, rslot,
          isFirstReload, nginx, loaded, rejected, poll, pending, wpc,
          requeue, deletes>>

RPC == {"idle", "staged", "testing", "committing", "signalling"}

TypeOK ==
    /\ prod \in [Slots -> File]
    /\ test \in [Slots -> File]
    /\ bak \in [Slots -> File]
    /\ want \in [Slots -> File]
    /\ dirty \in [Slots -> BOOLEAN]
    /\ updates \in 0..MaxUpdates
    /\ failures \in 0..MaxIOFaults
    /\ rpc \in RPC
    /\ rslot \in Slots
    /\ isFirstReload \in BOOLEAN
    /\ nginx \in {"none", "exec", "loaded", "running"}
    /\ loaded \in [Slots -> File]
    /\ rejected \in BOOLEAN
    /\ poll \in {"polling", "watching", "gaveup"}
    /\ pending \in [Dirs -> BOOLEAN]
    /\ wpc \in [Dirs -> {"idle", "checked"}]
    /\ requeue \in BOOLEAN
    /\ deletes \in 0..MaxDeletes

(***************************************************************************)
(* What "nginx -t" and a SIGHUP read: every production file, and the      *)
(* -test.conf files of conf.d, which the conf.d/*.conf include also       *)
(* matches.  The main slot's -test file and every .tmp file are outside   *)
(* the include.                                                            *)
(***************************************************************************)
TreeFiles == {prod[c] : c \in Slots} \cup {test[c] : c \in ConfSlots}
TreeValid == TreeFiles \cap BadConf = {}

\* fsnotify delivers an event only once dirWatcher has registered
Notify(d, happened) ==
    pending' = IF poll = "watching" /\ happened
               THEN [pending EXCEPT ![d] = TRUE] ELSE pending

\* CleanConf(backupFile, testConf), deferred by reload; a removal in
\* conf.d is a Remove event for the conf watcher.
CleanConf(c) ==
    /\ test' = [test EXCEPT ![c] = Absent]
    /\ bak' = [bak EXCEPT ![c] = Absent]
    /\ Notify("conf", c \in ConfSlots /\ (test[c] # Absent \/ bak[c] # Absent))

\* gracefulRestart: SIGHUP to the pid in the pid file; nginx re-reads the
\* tree and keeps its old configuration when the tree is invalid.
gracefulRestart ==
    /\ nginx = "running"
    /\ loaded' = IF TreeValid THEN prod ELSE loaded
    /\ rejected' = (rejected \/ ~TreeValid)

\* the pass returns an error: Reconcile requeues the Ingress's key, while
\* clearConf drops the error of its UpdateDefaultConf pass
Requeue == IF requeue THEN [dirty EXCEPT ![rslot] = TRUE] ELSE dirty

\* the empty default server that UpdateDefaultConf renders, which is also
\* the nginx.conf the controller starts with
EmptyServer == CHOOSE g \in GoodConf : TRUE

----------------------------------------------------------------------------
(* Users change Ingress objects; each change queues the slot.             *)

UpdateIngress(c) ==
    /\ updates < MaxUpdates
    /\ \E x \in Conf \ {want[c]}:
         /\ want' = [want EXCEPT ![c] = x]
         /\ dirty' = [dirty EXCEPT ![c] = TRUE]
    /\ updates' = updates + 1
    /\ UNCHANGED <<prod, test, bak, failures, rpc, rslot, isFirstReload,
                   nginx, loaded, rejected, poll, pending, wpc, requeue, deletes>>

\* An Ingress is deleted: r.Get will return NotFound for its queued key.
DeleteIngress(c) ==
    /\ c \in ConfSlots
    /\ want[c] # Absent
    /\ deletes < MaxDeletes
    /\ want' = [want EXCEPT ![c] = Absent]
    /\ dirty' = [dirty EXCEPT ![c] = TRUE]
    /\ deletes' = deletes + 1
    /\ UNCHANGED <<prod, test, bak, updates, failures, rpc, rslot, isFirstReload,
                   nginx, loaded, rejected, poll, pending, wpc, requeue>>

(***************************************************************************)
(* clearConf, for a key whose Ingress is gone.  When the conf.d file       *)
(* exists it is removed (a Remove event for the conf watcher) and nothing  *)
(* is reloaded; the key's -test.conf is left alone.  When it does not,     *)
(* UpdateDefaultConf renders the empty default server into                 *)
(* nginx-test.conf and reloads nginx.conf, dropping any error.  Reconcile  *)
(* returns nil either way.                                                 *)
(***************************************************************************)
clearConf(c) ==
    /\ rpc = "idle"
    /\ c \in ConfSlots
    /\ dirty[c]
    /\ want[c] = Absent
    /\ dirty' = [dirty EXCEPT ![c] = FALSE]
    /\ \/ /\ prod[c] # Absent
          /\ prod' = [prod EXCEPT ![c] = Absent]
          /\ Notify("conf", TRUE)
          /\ UNCHANGED <<test, rpc, rslot, requeue>>
       \/ /\ prod[c] = Absent
          /\ test' = [test EXCEPT ![MainConf] = EmptyServer]
          /\ rslot' = MainConf
          /\ rpc' = "staged"
          /\ requeue' = FALSE
          /\ UNCHANGED <<prod, pending>>
    /\ UNCHANGED <<bak, want, updates, failures, isFirstReload, nginx, loaded,
                   rejected, poll, wpc, deletes>>

(***************************************************************************)
(* The reconcile worker.  generateBackendTemplate writes the TLS files     *)
(* (a Write event in SslPath when the secret was readable), renders and   *)
(* writes <name>-test.conf, then calls nginx.Reload.                      *)
(***************************************************************************)
generateConfigure(c) ==
    /\ rpc = "idle"
    /\ dirty[c]
    /\ want[c] # Absent
    /\ test' = [test EXCEPT ![c] = want[c]]
    /\ dirty' = [dirty EXCEPT ![c] = FALSE]
    /\ rslot' = c
    /\ rpc' = "staged"
    /\ requeue' = TRUE
    /\ \E tlsWritten \in BOOLEAN : Notify("ssl", c \in ConfSlots /\ tlsWritten)
    /\ UNCHANGED <<prod, bak, want, updates, failures, isFirstReload, nginx,
                   loaded, rejected, poll, wpc, deletes>>

\* Mutation: a failed write of the test file is not requeued (Reconcile
\* returns nil after logging the error).
generateConfigureFailsNoRequeue(c) ==
    /\ rpc = "idle"
    /\ dirty[c]
    /\ want[c] # Absent
    /\ failures < MaxIOFaults
    /\ \E left \in BadConf \cup {test[c]} : test' = [test EXCEPT ![c] = left]
    /\ dirty' = [dirty EXCEPT ![c] = FALSE]
    /\ failures' = failures + 1
    /\ \E tlsWritten \in BOOLEAN : Notify("ssl", c \in ConfSlots /\ tlsWritten)
    /\ UNCHANGED <<prod, bak, want, updates, rpc, rslot, isFirstReload,
                   nginx, loaded, rejected, poll, wpc, requeue, deletes>>

\* generateConf: os.WriteFile of <name>-test.conf fails after a short write,
\* or cannot open the file and leaves the old one.  The error returns
\* before nginx.Reload, so no deferred CleanConf removes the file, and
\* Reconcile requeues the key after 15 s.
generateConfigureFails(c) ==
    /\ rpc = "idle"
    /\ dirty[c]
    /\ want[c] # Absent
    /\ failures < MaxIOFaults
    /\ \E left \in BadConf \cup {test[c]} : test' = [test EXCEPT ![c] = left]
    /\ failures' = failures + 1
    /\ \E tlsWritten \in BOOLEAN : Notify("ssl", c \in ConfSlots /\ tlsWritten)
    /\ UNCHANGED <<prod, bak, want, dirty, updates, rpc, rslot, isFirstReload,
                   nginx, loaded, rejected, poll, wpc, requeue, deletes>>

\* reload: production exists with the same SHA1: nothing to do
reloadUnchanged ==
    /\ rpc = "staged"
    /\ prod[rslot] # Absent
    /\ prod[rslot] = test[rslot]
    /\ CleanConf(rslot)
    /\ rpc' = "idle"
    /\ UNCHANGED <<prod, want, dirty, updates, failures, rslot, isFirstReload,
                   nginx, loaded, rejected, poll, wpc, requeue, deletes>>

\* reload -> backupConf: copy production to .tmp, overwrite production with
\* the test file, and (deferred) remove the test file
backupConf ==
    /\ rpc = "staged"
    /\ prod[rslot] # Absent
    /\ prod[rslot] # test[rslot]
    /\ bak' = [bak EXCEPT ![rslot] = prod[rslot]]
    /\ prod' = [prod EXCEPT ![rslot] = test[rslot]]
    /\ test' = [test EXCEPT ![rslot] = Absent]
    /\ Notify("conf", rslot \in ConfSlots)
    /\ isFirstReload' = FALSE
    /\ rpc' = "testing"
    /\ UNCHANGED <<want, dirty, updates, failures, rslot, nginx, loaded,
                   rejected, poll, wpc, requeue, deletes>>

\* backupConf: one of its two copies fails.  The copy to .tmp failing leaves
\* production as it was; the overwrite of production failing (os.WriteFile
\* error after a short write, or a failed Stat/SHA1 re-read after a full
\* one) leaves it truncated or holding the whole unvalidated test file.
\* reload returns the error at once and its deferred CleanConf runs, with
\* no rollback.  The workqueue requeues the slot.
backupConfFails ==
    /\ rpc = "staged"
    /\ prod[rslot] # Absent
    /\ prod[rslot] # test[rslot]
    /\ failures < MaxIOFaults
    /\ \E partial \in BadConf \cup {test[rslot], prod[rslot]} :
         prod' = [prod EXCEPT ![rslot] = partial]
    /\ test' = [test EXCEPT ![rslot] = Absent]
    /\ bak' = [bak EXCEPT ![rslot] = Absent]
    /\ Notify("conf", rslot \in ConfSlots)
    /\ dirty' = Requeue
    /\ failures' = failures + 1
    /\ rpc' = "idle"
    /\ UNCHANGED <<want, updates, rslot, isFirstReload, nginx, loaded,
                   rejected, poll, wpc, requeue, deletes>>

\* reload: no production file yet
reloadFirst ==
    /\ rpc = "staged"
    /\ prod[rslot] = Absent
    /\ isFirstReload' = TRUE
    /\ rpc' = "testing"
    /\ UNCHANGED <<prod, test, bak, want, dirty, updates, failures, rslot,
                   nginx, loaded, rejected, poll, pending, wpc, requeue, deletes>>

\* Mutation: the exit status of nginx -t is ignored.
testPassesAnyVerdict ==
    /\ rpc = "testing"
    /\ rpc' = "committing"
    /\ UNCHANGED <<prod, test, bak, want, dirty, updates, failures, rslot,
                   isFirstReload, nginx, loaded, rejected, poll, pending, wpc, requeue, deletes>>

\* nginx -t succeeds
testPasses ==
    /\ rpc = "testing"
    /\ TreeValid
    /\ rpc' = "committing"
    /\ UNCHANGED <<prod, test, bak, want, dirty, updates, failures, rslot,
                   isFirstReload, nginx, loaded, rejected, poll, pending, wpc, requeue, deletes>>

\* Execute: cmd.Run fails without an *exec.ExitError (the binary cannot be
\* started), and Execute returns nil, so reload takes nginx -t as passed.
testSpurious ==
    /\ rpc = "testing"
    /\ ~TreeValid
    /\ failures < MaxIOFaults
    /\ failures' = failures + 1
    /\ rpc' = "committing"
    /\ UNCHANGED <<prod, test, bak, want, dirty, updates, rslot,
                   isFirstReload, nginx, loaded, rejected, poll, pending, wpc, requeue, deletes>>

\* nginx -t fails: rolloutConf(.tmp -> production) unless first reload,
\* then the deferred CleanConf; the error requeues the slot
rolloutConf ==
    /\ rpc = "testing"
    /\ ~TreeValid
    /\ prod' = IF isFirstReload THEN prod
               ELSE [prod EXCEPT ![rslot] = bak[rslot]]
    /\ CleanConf(rslot)
    /\ dirty' = Requeue
    /\ rpc' = "idle"
    /\ UNCHANGED <<want, updates, failures, rslot, isFirstReload, nginx,
                   loaded, rejected, poll, wpc, requeue, deletes>>

\* rolloutConf(.tmp -> production) itself fails: os.WriteFile truncated
\* production and failed, or wrote it and the Stat/SHA1 check failed, or
\* could not open it.  reload returns that error after the deferred
\* CleanConf, and the slot is requeued.
rolloutConfFails ==
    /\ rpc = "testing"
    /\ ~TreeValid
    /\ ~isFirstReload
    /\ failures < MaxIOFaults
    /\ \E left \in BadConf \cup {bak[rslot], prod[rslot]} :
         prod' = [prod EXCEPT ![rslot] = left]
    /\ CleanConf(rslot)
    /\ dirty' = Requeue
    /\ failures' = failures + 1
    /\ rpc' = "idle"
    /\ UNCHANGED <<want, updates, rslot, isFirstReload, nginx, loaded,
                   rejected, poll, wpc, requeue, deletes>>

\* Mutation: the final generateConf(testConf, productConf) is dropped, as if
\* backupConf had always installed the test file already.
commitConfDropped ==
    /\ rpc = "committing"
    /\ prod' = prod
    /\ rpc' = "signalling"
    /\ UNCHANGED <<test, bak, want, dirty, updates, failures, rslot,
                   isFirstReload, nginx, loaded, rejected, poll, pending, wpc, requeue, deletes>>

\* generateConf(testConf, productConf) on a first reload: os.WriteFile of
\* production fails after a short write or cannot create it, or writes it
\* and the Stat/SHA1 check fails; reload returns the error after the
\* deferred CleanConf, and the slot is requeued.
commitConfFails ==
    /\ rpc = "committing"
    /\ test[rslot] # Absent
    /\ failures < MaxIOFaults
    /\ \E left \in BadConf \cup {prod[rslot], test[rslot]} :
         prod' = [prod EXCEPT ![rslot] = left]
    /\ CleanConf(rslot)
    /\ dirty' = Requeue
    /\ failures' = failures + 1
    /\ rpc' = "idle"
    /\ UNCHANGED <<want, updates, rslot, isFirstReload, nginx, loaded,
                   rejected, poll, wpc, requeue, deletes>>

\* generateConf(testConf, productConf): a no-op when backupConf already
\* removed the test file (os.ReadFile fails and generateConf returns nil)
commitConf ==
    /\ rpc = "committing"
    /\ prod' = IF test[rslot] # Absent
               THEN [prod EXCEPT ![rslot] = test[rslot]] ELSE prod
    /\ rpc' = "signalling"
    /\ UNCHANGED <<test, bak, want, dirty, updates, failures, rslot,
                   isFirstReload, nginx, loaded, rejected, poll, pending, wpc, requeue, deletes>>

\* gracefulRestart succeeds, then the deferred CleanConf
signalSent ==
    /\ rpc = "signalling"
    /\ gracefulRestart
    /\ CleanConf(rslot)
    /\ rpc' = "idle"
    /\ UNCHANGED <<prod, want, dirty, updates, failures, rslot, isFirstReload,
                   nginx, poll, wpc, requeue, deletes>>

\* the pid file cannot be read: the error requeues the slot
signalFails ==
    /\ rpc = "signalling"
    /\ nginx # "running"
    /\ CleanConf(rslot)
    /\ dirty' = Requeue
    /\ rpc' = "idle"
    /\ UNCHANGED <<prod, want, updates, failures, rslot, isFirstReload,
                   nginx, loaded, rejected, poll, wpc, requeue, deletes>>

ReconcileStep ==
    \/ reloadUnchanged \/ backupConf \/ backupConfFails \/ reloadFirst
    \/ testPasses \/ testSpurious \/ rolloutConf \/ rolloutConfFails
    \/ commitConf \/ commitConfFails \/ signalSent \/ signalFails

----------------------------------------------------------------------------
(***************************************************************************)
(* The watcher goroutines: on a Remove in ConfDir or a Write/Create in    *)
(* SslPath, reloadIfWatchFileCurd runs nginx -t and then gracefulRestart, *)
(* holding no lock.                                                        *)
(***************************************************************************)
watchTest(d) ==
    /\ wpc[d] = "idle"
    /\ pending[d]
    /\ pending' = [pending EXCEPT ![d] = FALSE]
    /\ \/ /\ wpc' = [wpc EXCEPT ![d] = IF TreeValid THEN "checked" ELSE "idle"]
          /\ UNCHANGED failures
       \* Execute returns nil when nginx -t could not be run at all
       \/ /\ ~TreeValid
          /\ failures < MaxIOFaults
          /\ wpc' = [wpc EXCEPT ![d] = "checked"]
          /\ failures' = failures + 1
    /\ UNCHANGED <<prod, test, bak, want, dirty, updates, rpc, rslot,
                   isFirstReload, nginx, loaded, rejected, poll, requeue, deletes>>

watchSignal(d) ==
    /\ wpc[d] = "checked"
    /\ IF nginx = "running" THEN gracefulRestart
                            ELSE UNCHANGED <<loaded, rejected, requeue, deletes>>
    /\ wpc' = [wpc EXCEPT ![d] = "idle"]
    /\ UNCHANGED <<prod, test, bak, want, dirty, updates, failures, rpc, rslot,
                   isFirstReload, nginx, poll, pending, requeue, deletes>>

----------------------------------------------------------------------------
(***************************************************************************)
(* Start: nginx -c nginx.conf is executed while a goroutine polls the      *)
(* process table for up to 10 s and then starts both watchers.            *)
(***************************************************************************)
startExec ==
    /\ nginx = "none"
    /\ nginx' = "exec"
    /\ UNCHANGED <<prod, test, bak, want, dirty, updates, failures, rpc, rslot,
                   isFirstReload, loaded, rejected, poll, pending, wpc, requeue, deletes>>

\* nginx parses its tree (a tree it rejects makes Start exit fatally)
startLoad ==
    /\ nginx = "exec"
    /\ TreeValid
    /\ nginx' = "loaded"
    /\ loaded' = prod
    /\ UNCHANGED <<prod, test, bak, want, dirty, updates, failures, rpc, rslot,
                   isFirstReload, rejected, poll, pending, wpc, requeue, deletes>>

startPid ==
    /\ nginx = "loaded"
    /\ nginx' = "running"
    /\ UNCHANGED <<prod, test, bak, want, dirty, updates, failures, rpc, rslot,
                   isFirstReload, loaded, rejected, poll, pending, wpc, requeue, deletes>>

\* isRunning() sees the process: close(done) and dirWatcher()
dirWatcher ==
    /\ poll = "polling"
    /\ nginx # "none"
    /\ poll' = "watching"
    /\ UNCHANGED <<prod, test, bak, want, dirty, updates, failures, rpc, rslot,
                   isFirstReload, nginx, loaded, rejected, pending, wpc, requeue, deletes>>

\* the 10 s timer fires first: log and return, no watcher ever
startTimeout ==
    /\ poll = "polling"
    /\ nginx = "none"
    /\ poll' = "gaveup"
    /\ UNCHANGED <<prod, test, bak, want, dirty, updates, failures, rpc, rslot,
                   isFirstReload, nginx, loaded, rejected, pending, wpc, requeue, deletes>>

StartStep == startExec \/ startLoad \/ startPid \/ dirWatcher

----------------------------------------------------------------------------
Init ==
    /\ prod = [c \in Slots |-> IF c = MainConf THEN EmptyServer ELSE Absent]
    /\ test = [c \in Slots |-> Absent]
    /\ bak = [c \in Slots |-> Absent]
    /\ want = prod
    /\ dirty = [c \in Slots |-> FALSE]
    /\ updates = 0
    /\ failures = 0
    /\ rpc = "idle"
    /\ rslot = MainConf
    /\ isFirstReload = FALSE
    /\ nginx = IF BootRace THEN "none" ELSE "running"
    /\ loaded = prod
    /\ rejected = FALSE
    /\ poll = IF BootRace THEN "polling" ELSE "watching"
    /\ pending = [d \in Dirs |-> FALSE]
    /\ wpc = [d \in Dirs |-> "idle"]
    /\ requeue = TRUE
    /\ deletes = 0

Next ==
    \/ \E c \in Slots : \/ UpdateIngress(c) \/ DeleteIngress(c)
                        \/ generateConfigure(c) \/ generateConfigureFails(c)
                        \/ clearConf(c)
    \/ ReconcileStep
    \/ \E d \in Dirs : watchTest(d) \/ watchSignal(d)
    \/ StartStep \/ startTimeout

(***************************************************************************)
(* Fairness.  controller-runtime's workqueue eventually hands every queued *)
(* key to the worker, although the worker is intermittently busy: strong   *)
(* fairness per slot.  A started pass runs to completion, each watcher     *)
(* goroutine handles its events, and nginx finishes starting: weak         *)
(* fairness.  Users and the 10 s timer are under no obligation.            *)
(***************************************************************************)
Fairness ==
    /\ \A c \in Slots : SF_vars(generateConfigure(c)) /\ SF_vars(clearConf(c))
    /\ WF_vars(ReconcileStep)
    /\ \A d \in Dirs : WF_vars(watchTest(d)) /\ WF_vars(watchSignal(d))
    /\ WF_vars(StartStep)

Spec == Init /\ [][Next]_vars /\ Fairness

----------------------------------------------------------------------------
(***************************************************************************)
(* Properties                                                              *)
(***************************************************************************)

\* Spec 7: the reload protocol never leaves production configuration broken.
\* Whenever no reconcile pass is in progress, every production file (the
\* tree nginx -t and the next SIGHUP read) passes nginx's syntax check,
\* whatever order backupConf, nginx -t, rolloutConf and the watchers ran in.
ProdValidAtRest ==
    rpc = "idle" => \A c \in Slots : prod[c] \notin BadConf

\* A <name>-test.conf left in conf.d by a failed write in generateConf
\* (controller/nginx.go:77), which returns before nginx.Reload and so before
\* the deferred CleanConf, is matched by the *.conf include and read by
\* every later nginx -t and SIGHUP.  It is eventually removed for good:
\* the requeued pass rewrites it and its reload's CleanConf deletes it,
\* through the short-circuit, rollback, failed-commit and SIGHUP exits.
StagingCleanedEventually ==
    <>[](rpc = "idle" => \A c \in ConfSlots : test[c] = Absent)

(***************************************************************************)
(* Refinement.  Production as of the last commit: while a non-first pass   *)
(* tests, the file it overwrote in backupConf is still the committed one   *)
(* (it waits in .tmp); nginx -t passing commits it, rolloutConf puts the   *)
(* committed file back.  A first pass commits in generateConf.             *)
(***************************************************************************)
committedProd ==
    IF rpc = "testing" /\ ~isFirstReload
    THEN [prod EXCEPT ![rslot] = bak[rslot]]
    ELSE prod

Abstract == INSTANCE ReloadAbstract WITH prod <- committedProd

\* The reload protocol implements the coordinator's promise: production
\* changes only by committing a rendering that leaves a tree nginx -t
\* accepts, never by a failed or half-done pass; backupConf's early
\* overwrite is invisible because rolloutConf restores the .tmp copy.
ReloadRefinement == Abstract!Spec

\* Spec 5: the watcher callback and a regeneration never race, so nginx is
\* never sent SIGHUP for a tree that fails nginx -t (nginx would log an
\* emerg and keep its old configuration).
NoRejectedReload == ~rejected

\* Every Ingress whose rendered configuration is valid is eventually served
\* by nginx: after the last change, nginx's loaded configuration for that
\* slot equals the rendered one, through retries, short-circuits on equal
\* SHA1 and watcher-triggered reloads.
EventuallyServed ==
    <>[](\A c \in Slots : want[c] \in GoodConf => loaded[c] = want[c])

\* The conf.d watcher keeps conf.d current: once every Ingress renders to
\* a valid configuration (or is deleted) and stays so, and dirWatcher has
\* registered, nginx eventually serves every conf.d file as rendered and no
\* longer serves a deleted Ingress.  clearConf only removes the file and
\* relies on the Remove event to reload; a failed overwrite in backupConf
\* can leave production truncated, or leave the new file in place
\* unsignalled so that the retry short-circuits on equal SHA1.
ConfDirHeals ==
    (<>[](\A c \in Slots : want[c] \notin BadConf) /\ <>(poll = "watching"))
        => <>[](\A c \in ConfSlots : loaded[c] = want[c])

=============================================================================
