-------------------------- MODULE MCRepositoryScope -------------------------
(* Values of the constants of RepositoryScope: one project under three     *)
(* spellings, another one, and a remote that is not supported.             *)
EXTENDS RepositoryScope, TLC

CONSTANTS top, worktree, p1, p2, Host, host, team, local

MCLower == (Host :> host) @@ (host :> host)

Url(scheme, h, port, path, suffix, project) ==
  [scheme |-> scheme, host |-> h, port |-> port, path |-> path, suffix |-> suffix, project |-> project]

MCUrls ==
  {Url("https", Host, 443, team, TRUE, 1), Url("scp", host, NoUrl, team, FALSE, 1),
   Url("ssh", host, 2222, team, FALSE, 2), Url("https", host, NoUrl, local, FALSE, 3)}

MCInitialIds == {Malformed, <<"remote", Canonical(Url("ssh", host, 22, team, TRUE, 1))>>}

Symmetry == Permutations(Runs) \cup Permutations(Directories)
=============================================================================
