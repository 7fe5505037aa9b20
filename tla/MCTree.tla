------------------------------- MODULE MCTree -------------------------------
(***************************************************************************)
(* An instance of Tree: names that begin alike, a-b and a, files in and    *)
(* around a directory a, and tars that give things twice.                  *)
(***************************************************************************)
EXTENDS Tree

a  == <<10>>
b  == <<11>>
ab == a \o <<Dash>> \o b

File(path, mtime, data) == Entry(path, "file", "own", mtime, data)

MCEntries ==
  { DirEntry(<<>>, "own", 4),
    DirEntry(<<a>>, "own", 5),
    File(<<a, b>>, 7, <<a>>),
    File(<<a, b, a>>, 4, <<b>>),
    File(<<a>>, 4, <<a>>),
    File(<<a>>, 4, <<b, b>>),
    File(<<ab>>, 6, <<a>>),
    Entry(<<a>>, "symlink", "own", 4, <<b>>),
    Entry(<<b>>, "hard", "own", 6, <<a>>),
    Entry(<<a, ab>>, "ignored", "own", 4, <<>>),
    [File(<<b>>, 4, <<a>>) EXCEPT !.form = "absolute"],
    [File(<<b>>, 4, <<a>>) EXCEPT !.form = "up"] }

MCFilters == { Keep, [uid |-> "unset", mtime |-> "unset", at |-> Epoch],
               [uid |-> "keep", mtime |-> "use", at |-> 3] }
MCTimeless == { [uid |-> "unset", mtime |-> "unset", at |-> Epoch] }
=============================================================================
