---------------------------- MODULE MCReconciler ----------------------------
EXTENDS Reconciler, TLC

CONSTANTS i1, i2, h1, h2

MCIngresses == {i1, i2}
MCHosts == {h1, h2}

\* two Ingresses named web, in namespaces prod and dev
MCName == i1 :> "web" @@ i2 :> "web"
MCNamespace == i1 :> "prod" @@ i2 :> "dev"

\* Ingress a-b in namespace c and Ingress a in namespace b-c: both are
\* valid Kubernetes names, and both join to a-b-c
CollidingName == i1 :> "a-b" @@ i2 :> "a"
CollidingNamespace == i1 :> "c" @@ i2 :> "b-c"
=============================================================================
