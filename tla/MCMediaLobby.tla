---------------------------- MODULE MCMediaLobby ----------------------------
(* A room with its owner, a member with two join attempts and an           *)
(* organization admin, under two commands.                                 *)
EXTENDS MediaLobby, TLC

CONSTANTS host, ann, admin, jh, ja1, ja2, k1, k2

MCAttemptUser == [j \in Attempts |-> IF j = jh THEN host ELSE ann]
(* The second command undoes or meets what the first one did.              *)
MCKeyOps ==
    k1 :> {"promote", "deny", "revoke_member", "remove", "raise", "cancel",
           "admit"}
      @@ k2 :> Ops \ {"promote", "remove", "cancel"}

(* The member's two attempts differ in nothing but their names.            *)
Interchangeable == Permutations({ja1, ja2})
=============================================================================
