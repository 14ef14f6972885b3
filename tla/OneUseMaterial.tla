--------------------------- MODULE OneUseMaterial ---------------------------
(***************************************************************************)
(* What a presignature pool promises, with no timestamps, revisions or     *)
(* rows: a piece of material is held, may be bound to one owner, and then  *)
(* is either used by that owner, once, or gone.  The crate documentation   *)
(* of crates/router-ab-ecdsa-pool calls this the one-use lifecycle.        *)
(***************************************************************************)
CONSTANTS Materials, Owners, NoOwner

VARIABLES
    status,    \* [Materials -> {"none", "held", "bound", "used", "gone"}]
    owner      \* [Materials -> Owners \cup {NoOwner}]

abstractVars == <<status, owner>>

Init ==
    /\ status = [m \in Materials |-> "none"]
    /\ owner = [m \in Materials |-> NoOwner]

Admit(m) ==
    /\ status[m] = "none"
    /\ status' = [status EXCEPT ![m] = "held"]
    /\ UNCHANGED owner

\* Material may also enter the pool already bound.
Bind(m, o) ==
    /\ status[m] \in {"none", "held"}
    /\ status' = [status EXCEPT ![m] = "bound"]
    /\ owner' = [owner EXCEPT ![m] = o]

Use(m) ==
    /\ status[m] = "bound"
    /\ status' = [status EXCEPT ![m] = "used"]
    /\ UNCHANGED owner

\* Destroyed without use, several at once when a wallet is frozen; whoever
\* had bound the material stays on record.
Burn(S) ==
    /\ \A m \in S : status[m] \in {"held", "bound"}
    /\ status' = [m \in Materials |-> IF m \in S THEN "gone" ELSE status[m]]
    /\ UNCHANGED owner

Next ==
    \/ \E m \in Materials :
        \/ Admit(m)
        \/ \E o \in Owners : Bind(m, o)
        \/ Use(m)
    \/ \E S \in SUBSET Materials : Burn(S)

Spec == Init /\ [][Next]_abstractVars

=============================================================================
