----------------------- MODULE MCRuntimeCapabilities -----------------------
(* Small instances of RuntimeCapabilities for TLC. *)
EXTENDS RuntimeCapabilities, TLC

Item(f, d) == [field |-> f, direction |-> d]
SomeOrders == {<<>>, <<Item("value", "asc")>>, <<Item("value", "desc"), Item("createdAt", "desc")>>}
Deploying == {"definitions", "records"}
Writing == {"records"}
Paging == {"records", "paging"}
EverySubject == {Deploying, Writing, Paging, {"storage"}, {"cache"}, {"logs"}, {"upstreams"}, {"sandbox"}}
CallsOf == Deploying :> 5 @@ Writing :> 3 @@ Paging :> 2 @@ {"storage"} :> 3 @@ {"cache"} :> 3
             @@ {"logs"} :> 2 @@ {"upstreams"} :> 1 @@ {"sandbox"} :> 1
SomeGrants == {{"read"}, {"read", "write", "delete"}}
SomePatterns == {{1, 2}}
SomeBytes == <<3, 1, 1>>
SomeTtls == {0, 3, None}
Symmetry == Permutations(Callers)
=============================================================================
