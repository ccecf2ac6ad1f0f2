---------------------------- MODULE MCPutClient ----------------------------
(* An instance of PutClient for TLC: a command and a page, of one user with *)
(* one file or of two users with different ones; another user logs in on    *)
(* the same host.                                                           *)
EXTENDS PutClient, TLC

MCSetups == {[j \in Jobs |-> "ann"], [j \in Jobs |-> IF j \in Web THEN "bob" ELSE "ann"]}
MCFile == "ann" :> "x" @@ "bob" :> "y"
=============================================================================
