--------------------------- MODULE ReloadAbstract ---------------------------
(***************************************************************************)
(* What the Reload Coordinator promises (spec 4.6 and 7), with the steps   *)
(* of a pass hidden: the production configuration tree changes only by an *)
(* atomic commit that replaces one file with a rendering, and only when   *)
(* the tree it leaves passes nginx's syntax check.  A pass that fails      *)
(* leaves production as it was.  Users change renderings at any time, and *)
(* the file of a deleted Ingress may be removed.                          *)
(***************************************************************************)
CONSTANTS Slots, GoodConf, BadConf, Absent

VARIABLES
    prod,   \* the production file of each slot, as of the last commit
    want    \* what each slot's Ingress currently renders to

Conf == GoodConf \cup BadConf

\* the tree nginx -t reads, made only of production files
Valid(p) == \A c \in Slots : p[c] \notin BadConf

Init ==
    /\ prod \in [Slots -> GoodConf \cup {Absent}]
    /\ want = prod

\* an Ingress is created, changed or deleted
Render(c) ==
    /\ \E x \in (Conf \cup {Absent}) \ {want[c]} : want' = [want EXCEPT ![c] = x]
    /\ UNCHANGED prod

\* the production file of a deleted Ingress is removed
Remove(c) ==
    /\ want[c] = Absent
    /\ prod[c] # Absent
    /\ prod' = [prod EXCEPT ![c] = Absent]
    /\ UNCHANGED want

Commit(c) ==
    /\ \E x \in GoodConf \ {prod[c]} : prod' = [prod EXCEPT ![c] = x]
    /\ Valid(prod')
    /\ UNCHANGED want

Next == \E c \in Slots : Render(c) \/ Commit(c) \/ Remove(c)

Spec == Init /\ [][Next]_<<prod, want>>

=============================================================================
