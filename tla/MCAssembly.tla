----------------------------- MODULE MCAssembly -----------------------------
(***************************************************************************)
(* Assembly on jobs made of up to a handful of parts.  Names are 1 and 2.  *)
(***************************************************************************)
EXTENDS Assembly

MCPaths == {<<>>, <<1>>, <<2>>, <<1, 1>>, <<2, 1>>}

\* Base is a root input and Script a file input over one of its files, which
\* Scratch, a writable host mount, may cover; Library is a read-only host mount,
\* too bare to hold the mount point of the input Nested; Tools is an empty input
\* directory; Device is no directory.
Base == "base"
Script == "script"
Nested == "nested"
Scratch == "scratch"
Library == "library"
Device == "device"
Tools == "tools"

All == {Base, Script, Nested, Scratch, Library, Device, Tools}

MCTarget == Restrict((Base :> <<>>) @@ (Script :> <<1, 1>>) @@ (Nested :> <<2, 1>>)
              @@ (Scratch :> <<1>>) @@ (Library :> <<2>>)
              @@ (Tools :> <<1>>) @@ (Device :> <<2>>), Parts)
MCWritable == [p \in Parts |-> p # Library]
MCBareMount == [p \in Parts |-> p \in {Scratch, Library, Device}]

\* The script is shorter than the file of the base that it is placed over.
BaseTree == (<<>> :> Dir) @@ (<<1>> :> Dir) @@ (<<1, 1>> :> File(<<Base, Base>>))
MCSource == Restrict((Base :> BaseTree)
              @@ (Script :> (<<>> :> File(<<Script>>)))
              @@ (Nested :> (<<>> :> Dir))
              @@ (Scratch :> ((<<>> :> Dir) @@ (<<1>> :> File(<<Scratch>>))))
              @@ (Library :> (<<>> :> Dir)) @@ (Tools :> (<<>> :> Dir))
              @@ (Device :> (<<>> :> Other)), Parts)
=============================================================================
