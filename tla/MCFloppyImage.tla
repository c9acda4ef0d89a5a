--------------------------- MODULE MCFloppyImage ---------------------------
(***************************************************************************)
(* An image of 12 sectors of 8 bytes: the boot sector, two FATs of three   *)
(* sectors, a root directory for two entries and 4 clusters.               *)
(***************************************************************************)
EXTENDS FloppyImageProps

MCPaths == {"boot.bin", "a.exe", "b.exe", "dir", "out.img"}

F(length, extension) == [kind |-> "file", length |-> length, version |-> 0, extension |-> extension]
Other(kind)          == [kind |-> kind, length |-> 0, version |-> 0, extension |-> "full"]

MCTrees ==
    {("boot.bin" :> F(boot, "full")) @@ ("a.exe" :> a) @@ ("b.exe" :> b)
        @@ ("dir" :> Other("directory")) @@ ("out.img" :> Other("none")) :
        boot \in {3, 8}, a \in {F(l, "full") : l \in {0, 5, 8, 17, 27, 29}}, 
        b \in {Other("none"), Other("directory"), F(4, "short"), F(0, "none"), F(9, "full"), F(16, "full")}}

MCListing == [p \in MCPaths |-> IF p = "dir" THEN {"a.exe", "b.exe"} ELSE {}]

A(name, value) == [name |-> name, value |-> value]

\* What the build task passes, and command lines by hand.
Task(sources) == <<A("boot", "boot.bin"), A("out", "out.img")>> \o
                     [i \in DOMAIN sources |-> A("file", sources[i])]

MCArgs == {Task(<<"a.exe">>), Task(<<"a.exe", "b.exe">>), Task(<<"b.exe", "a.exe", "a.exe">>),
           <<A("out", "out.img"), A("in", "dir")>>, <<A("out", "out.img"), A("in", "b.exe")>>,
           <<A("out", "out.img"), A("file", "b.exe"), A("in", "dir")>>,
           <<A("file", "a.exe")>>, <<A("other", "")>>, <<A("out", "out.img"), A("out", "a.exe")>>}

MCLengths == {0, 5, 8, 9}
=============================================================================
