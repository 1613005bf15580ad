---------------------------- MODULE AdmissionLock ----------------------------
(***************************************************************************)
(* What execution admission promises its callers: the requests that        *)
(* execute a scope follow one another.  A request enters only when nobody  *)
(* executes, and leaves by finishing, by failing or by crashing.           *)
(***************************************************************************)
CONSTANT Requests

VARIABLE executing

TypeOK == executing \subseteq Requests

Init == executing = {}

Enter(r) == executing = {} /\ executing' = {r}

Leave(r) == r \in executing /\ executing' = executing \ {r}

Next == \E r \in Requests : Enter(r) \/ Leave(r)

Spec == Init /\ [][Next]_executing
=============================================================================
