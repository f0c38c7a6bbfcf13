------------------------------ MODULE MCStress ------------------------------
(* Stress with every kind of server at the target address.                 *)
EXTENDS Stress

Option(spawn, profiles, blocklist, accepts, remote) ==
  [spawn |-> spawn, cpu |-> profiles, heap |-> profiles, blocklist |-> blocklist,
   accepts |-> accepts, remote |-> remote]

\* The serve command of a bns that has the flags that Run passes.
OldFlags == ServeFlags \cup {"upstream", "blocklist"}

\* TestStress_MiniRun: the bns that Run starts is built from this repository.
MiniRun == Option(TRUE, TRUE, TRUE, ServeFlags, FALSE)

MiniRunOnly == {MiniRun}

\* Run with its own bns, with one that is there already, and with both.
MCOptions ==
  {MiniRun,
   Option(TRUE, TRUE, TRUE, OldFlags, FALSE),
   Option(TRUE, FALSE, FALSE, OldFlags, FALSE),
   Option(FALSE, TRUE, FALSE, OldFlags, TRUE),
   Option(TRUE, FALSE, FALSE, ServeFlags, TRUE),
   Option(FALSE, FALSE, FALSE, ServeFlags, FALSE)}

=============================================================================
