------------------------------- MODULE MCFiles -------------------------------
(***************************************************************************)
(* What system calls do with the paths, descriptors and buffers they get.  *)
(* In "table" behaviours threads race on the descriptor table with a few   *)
(* paths; in "paths" behaviours the working directory wanders with every   *)
(* path of up to three segments, and path resolution is compared with its  *)
(* meaning in each; in "buffers" behaviours every address and length meets *)
(* every check of a host access.  Each leaves the others' state initial.   *)
(***************************************************************************)
EXTENDS FileTable, HostAccess

CONSTANTS work, docs, t1  \* two names, a thread

VARIABLE part  \* the part this behaviour follows

\* The mappings of the example in lfi_linux.h, a sysroot and a work directory.
Sysroot == [box |-> <<"/">>, host |-> <<"/", "r">>]
Work == [box |-> <<"/", work>>, host |-> <<"/", "v", "/">>]
MCMaps == <<Sysroot, Work>>

ASSUME MCAssumption == {work, docs} \subseteq Names /\ t1 \in Thread /\ MapsNested

MCHostDirs == {<<"/", "r">>, <<"/", "r", "/", docs>>, <<"/", "v">>, <<"/", "v", "/", docs>>}
MCHostFiles == {<<"/", "v", "/", work>>}
MCStd == << <<"tty">> >>

FewPaths == {<<"/", work, "/", work>>, <<docs>>}

Seg == {work, docs, ".", ".."}
Sep(a, b) == IF a = b THEN <<"/", "/">> ELSE <<"/">>
One == {<<a>> : a \in Seg}
Longer(P) == UNION {{p \o Sep(Last(p), a) \o <<a>> : a \in Seg} : p \in P}
WidePaths ==
    LET rel == {<<>>} \cup One \cup {p \o <<"/">> : p \in One} \cup Longer(One) \cup Longer(Longer(One))
    IN  rel \cup {<<"/">> \o p : p \in rel}

\* Sizes in a box of nine addresses, and the strings in it.
MCLayout ==
    [timespec |-> [size |-> 4, align |-> 2], rlimit |-> [size |-> 4, align |-> 2],
     utsname |-> [size |-> 5, align |-> 1], sysinfo |-> [size |-> 6, align |-> 2],
     name |-> [size |-> 3, align |-> 1], stat |-> [size |-> 6, align |-> 2],
     winsize |-> [size |-> 2, align |-> 1], dirent |-> [size |-> 4, align |-> 2],
     iovec |-> [size |-> 4, align |-> 2]]
MCDirents == <<3, 5>>
MCStrings == {{}, {5}, {11, 12}, {13}}

MCInit ==
    /\ part \in {"table", "paths", "buffers"}
    /\ FileInit /\ (part # "paths" => cwd # <<>>)
    /\ AccessInit /\ (part # "buffers" => nul = {})
MCNext ==
    /\ UNCHANGED part
    /\ \/ part = "table" /\ FileNext /\ UNCHANGED accessVars
       \/ part = "paths" /\ (\E p \in WidePaths : Chdir(t1, p)) /\ UNCHANGED accessVars
       \/ part = "buffers" /\ AccessNext /\ UNCHANGED fileVars
MCSpec == MCInit /\ [][MCNext]_<<fileVars, accessVars, part>>

\* path_resolve finds the host path that the path means, for every path of the
\* "paths" behaviours and from every directory they reach.
PathsSound == part = "paths" => SoundFor(WidePaths)
=============================================================================
