------------------------------- MODULE MCGit -------------------------------
(***************************************************************************)
(* An instance of Git: a project with a library in it twice, the library   *)
(* itself, and a mirror that has none of it.                               *)
(***************************************************************************)
EXTENDS Git

CONSTANTS project, library,        \* commits
          main, lib, mirror        \* remotes

MCCommits == {project, library}
MCRepos   == {main, lib, mirror}
MCHeads   == [r \in MCRepos |-> CASE r = main -> {project} [] r = lib -> {library}
                                  [] OTHER -> {}]
MCSubs    == [h \in MCCommits |-> IF h = project THEN <<library, library>> ELSE <<>>]
MCUrl     == [h \in MCCommits |-> IF h = library THEN lib ELSE None]
MCSilos   == {<<>>, <<main>>, <<mirror, main>>, <<lib>>}
=============================================================================
