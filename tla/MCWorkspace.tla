----------------------------- MODULE MCWorkspace -----------------------------
(* Six parts of the system that share no state, each explored alone.       *)
(* "accounts": two people and two external identities sign in, link and    *)
(* unlink. "tenants": they create, switch and archive two tenants and      *)
(* invite one another. "messages": two sends of one client id race in      *)
(* three threads while rights come and go. "artifacts": a snapshot and two *)
(* restores of one board by two workers. "runtime": two sockets of that    *)
(* board. "guard": two runtimes over nine ticks.                           *)
EXTENDS Identity, Conversation, WhiteboardRuntime, ProviderGuard, TLC

VARIABLE area

MCKindOf == "s1" :> "snapshot" @@ "r1" :> "restore" @@ "r2" :> "restore"

Areas == {"accounts", "tenants", "messages", "artifacts", "runtime", "guard"}

MCInit ==
    /\ IdentityInit /\ ConversationInit /\ WhiteboardInit /\ RuntimeInit /\ GuardInit
    /\ area \in Areas

(* What "accounts" and "tenants" leave to each other.                      *)
Divided ==
    /\ area = "accounts" => UNCHANGED <<tenant, membership, invitation>>
    /\ area = "tenants" => /\ flow'["f2"] = NoFlow /\ flow'["f1"].session = Nobody
                           /\ \A s \in SignIns : txn'[s].step # "unlinking"

(* The second flow, session row, send, worker or socket is taken up while  *)
(* the first is in use: they are interchangeable.                          *)
InOrder ==
    /\ flow["f1"] = NoFlow /\ flow["f2"] = NoFlow => flow'["f2"] = NoFlow
    /\ signIn["x1"] = NoSignIn => signIn'["x2"] = NoSignIn
    /\ sending["d1"] = NoSend /\ sending["d2"] = NoSend => sending'["d2"] = NoSend
    /\ job["w1"] = NoJob /\ job["w2"] = NoJob => job'["w2"] = NoJob
    /\ socket["k1"] = NoSocket /\ socket["k2"] = NoSocket => socket'["k2"] = NoSocket

MCNext ==
    /\ UNCHANGED area
    /\ \/ /\ area \in {"accounts", "tenants"} /\ IdentityNext /\ Divided
          /\ UNCHANGED <<conversationVars, boardVars, runtimeVars, guardVars>>
       \/ /\ area = "messages" /\ ConversationNext
          /\ UNCHANGED <<identityVars, boardVars, runtimeVars, guardVars>>
       \/ /\ area = "artifacts" /\ WhiteboardNext
          /\ UNCHANGED <<identityVars, conversationVars, runtimeVars, guardVars>>
       \/ /\ area = "runtime" /\ RuntimeNext
          /\ UNCHANGED <<identityVars, conversationVars, guardVars>>
       \/ /\ area = "guard" /\ GuardNext
          /\ UNCHANGED <<identityVars, conversationVars, boardVars, runtimeVars>>
    /\ InOrder

MCSpec ==
    /\ MCInit
    /\ [][MCNext]_<<identityVars, conversationVars, boardVars, runtimeVars, guardVars, area>>

(* Two sign-ins race where nobody is unlinking. Rights are lost one at a   *)
(* time, and in one thread. In "artifacts" r2 is asked for after r1, and   *)
(* attempts, transitions and scopes of writers trade off; the purge runs   *)
(* while few are about. In "runtime" sockets, probes, unsaved changes and  *)
(* a checkpoint meet three at a time, two at a time while the runtime is   *)
(* not ready for writers, and one at a time while it has failed or stopped *)
(* or after the second revocation.                                         *)
Crowd == Cardinality({k \in Sockets : socket[k] # NoSocket} \cup {q \in DOMAIN probe : probe[q] # NoProbe})
           + Cardinality({g \in Generations : checkpoint[g] # None})
           + IF memory.dirty THEN 1 ELSE 0
Busy == {w \in BoardWorkers : job[w] # NoJob}
Tries == artifact["s1"].attempts + artifact["r1"].attempts + artifact["r2"].attempts
Room == IF \/ ready.lifecycle # "running" \/ ready.mode = "off" \/ ~ready.checkpoint
           \/ board.status = "closed" THEN 1
        ELSE IF ready.mode = "enabled" /\ Ready /\ ~revoking THEN 3
        ELSE IF ready.mode = "enabled" \/ board.revoke = 1 THEN 2
        ELSE 1
Bounded ==
    /\ area = "accounts" => Cardinality({s \in SignIns : signIn[s].status \in {"ended", "revoked"}}) <= 1
    /\ flow["f2"] # NoFlow => \A s \in SignIns : txn[s] = NoTxn
    /\ Cardinality(Facts \ standing) + Cardinality(threads) <= 2
    /\ artifact["r2"] # NoCommand => artifact["r1"] # NoCommand
    /\ Tries + board.version + Cardinality(issued) <= 8
    /\ Tries <= 4
    /\ purging # {} => Cardinality(Busy) + Cardinality(issued) <= 2
    /\ area = "runtime" => board.revoke <= 2 /\ Crowd <= Room
                           /\ (board.revoke = 2 => Crowd <= 1)
=============================================================================
