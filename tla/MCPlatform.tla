----------------------------- MODULE MCPlatform -----------------------------
(***************************************************************************)
(* Small instances of Platform.  A behaviour is about the operations of    *)
(* one plan: a run explores every plan for itself.  The requests of both   *)
(* sides have the same names, so that one permutation is theirs.           *)
(***************************************************************************)
EXTENDS Platform, TLC

CONSTANTS e1, e2

Staffed(owners, clerks) ==
    [a \in Accounts |-> IF a \in owners THEN NewUser("owner")
                        ELSE IF a \in clerks THEN NewUser("operador_caixa") ELSE NoUser]
Start(operations, owners, clerks) == [plan |-> operations, staff |-> Staffed(owners, clerks)]

MCStarts ==
    { Start({"login", "refresh", "reset"}, {e1}, {}),
      Start({"login", "deactivate"}, {e1}, {e2}),
      Start({"role", "deactivate"}, {e1, e2}, {}),
      Start({"register", "refresh", "reset"}, {}, {}),
      Start({"invite"}, {e1}, {}),
      Start({"key", "trial"}, {e1}, {}),
      Start({"override"}, {e1}, {e2}),
      Start({"trial", "bill"}, {e1}, {}) }

OwnersMeet == {Start({"role", "deactivate"}, {e1, e2}, {})}

MCRows ==
    { [subject |-> "Sale", action |-> "read", effect |-> "deny"],
      [subject |-> "User", action |-> "manage", effect |-> "allow"] }

Interchangeable == Permutations(Workers)

=============================================================================
